---- MODULE Spec2Model ----
(***************************************************************************)
(* Scene manager of the QuadRay engine (engine.cpp, src/unnamed/part_000): *)
(* the per-frame update/render pipeline of rt_Scene::render, the tile      *)
(* rasterizer rt_SceneThread::tiling and the tile-grid assembly.           *)
(*                                                                         *)
(* Three specifications share the module:                                  *)
(*   Spec       - rt_Scene::render as a state machine, frame after frame   *)
(*   SpecGrid   - the tile-grid assembly of rt_Scene::render applied to    *)
(*                enumerated global lists and per-surface tile lists       *)
(*   SpecTiling - rt_SceneThread::tiling applied to enumerated segments    *)
(***************************************************************************)
EXTENDS Integers, Sequences, FiniteSets, TLC

(***************************************************************************)
(* Bounds of the model.                                                    *)
(***************************************************************************)
\* largest number of surfaces in the scene (srf_num)
MaxSrf == 3
\* largest size of the worker pool (thnum)
MaxThreads == 2
\* tilebuffer of the pipeline and of the grid assembly: columns, rows
GridCols == 2
GridRows == 3
\* largest number of lights in the scene (lgt_num)
MaxLgt == 1
\* the rasterizer's coordinates are multiples of 1/Unit of a tile
Unit == 2
\* largest number of bbox vertices (verts_num) and bbox edges (edges_num)
MaxVerts == 3
MaxEdges == 2
\* largest number of surfaces in the scenes that are there for the comb of
\* insert
MaxList == 5
\* largest number of surfaces in the lists whose inserts are followed step
\* by step
MaxSort == 4
\* largest number of surfaces and lights together in the frames whose
\* calls of insert and filter are followed
MaxObj == 3
\* number of rt_Scene objects
MaxInst == 2
\* the frame addresses the constructor is called with are RT_NULL and the
\* powers of two up to 2^MaxBits
MaxBits == 4

VARIABLES
    \* ---- rt_Scene::rt_Scene, rt_Scene::~rt_Scene
    scn,        \* per scene description: root tag, camera, lock
    inst,       \* per rt_Scene object: NoInst or the fields set for it
    \* ---- scene, fixed by the constructor and the scene data
    thnum,      \* number of scene threads
    srf_num,    \* number of surfaces in the srf_head list
    lgt_num,    \* number of lights in the lgt_head list
    opts,       \* runtime optimization flags: [thread, tiling]
    trnode,     \* per surface: its trnode (NullNode, itself or an array)
    \* ---- rt_Scene::render
    pc,         \* position of the main thread inside render
    mpool,      \* main pool reserved
    thpool,     \* per thread: pool reserved
    slice,      \* per thread: the slice it was tasked with [ph, i, st]
    bounds,     \* per surface: txmin/txmax rows left by the bbox projection
    slist,      \* global surface list
    llist,      \* global light/shadow list
    msc_p,      \* per surface: tile list (s_srf->msc_p[0])
    lst_p,      \* per surface: candidate slots (s_srf->lst_p[0..3])
    tiles,      \* the tilebuffer: one list per tile
    \* ---- rt_SceneThread::tiling
    tiling_ext, \* scene->opts & RT_OPTS_TILING_EXT1
    txmin,      \* per tile row: leftmost marked column
    txmax,      \* per tile row: rightmost marked column
    \* ---- rt_SceneThread::stile, the projection of the bbox
    shape,      \* the surface's bbox: vertex classes, positions, edges
    verts,      \* the scratch vertices: [org, pos, tag]
    \* ---- rt_SceneThread::insert, rt_SceneThread::filter
    nodes,      \* the call's objects: requester, candidates' nodes, options
    bbox_sort,  \* the order value of every pair of nodes, as seen from obj
    heap,       \* the list slot and the elements allocated for its list
    \* ---- observation of the run (history, not program state)
    did,        \* per update phase, per surface: workers that processed it
    scratch,    \* per thread: the surface its txmin/txmax/verts were written for
    evt,        \* what the frame has completed so far
    rd,         \* states of the list heads read by the last step
    oob,        \* some write of tiling went to a row outside txmin/txmax
    seg,        \* the last call of tiling: its points and its margin
    calls,      \* the calls of tiling made by the last stile, in order
    reqs,       \* the calls of insert and filter of the frame: slot, obj
    loc,        \* the call of insert in progress: its position and locals
    ctor,       \* the last step, when a constructor call: arguments, throw
    log         \* the calls of insert and filter so far and what they gave

vars == <<scn, inst, ctor, thnum, srf_num, lgt_num, opts, trnode, pc, mpool, thpool, slice, bounds,
          slist, llist, msc_p, lst_p, tiles, did, scratch, evt, rd,
          tiling_ext, txmin, txmax, oob, seg,
          shape, verts, calls, nodes, bbox_sort, heap, log, reqs, loc>>

(***************************************************************************)
(* Objects and list elements.                                              *)
(***************************************************************************)
NullNode   == [tag |-> "NULL", id |-> 0]
Surface(i) == [tag |-> "SURFACE", id |-> i]
Array(k)   == [tag |-> "ARRAY", id |-> k]

RT_IS_ARRAY(obj)   == obj.tag = "ARRAY"
RT_IS_SURFACE(obj) == obj.tag = "SURFACE"

(***************************************************************************)
(* Scene descriptions and rt_Scene objects.                                *)
(***************************************************************************)
RT_NULL       == 0
RT_SIMD_WIDTH == 4
RT_SIMD_ALIGN == 16

\* two scene descriptions (rt_SCENE)
ScnData == {0, 1}
Insts   == 1 .. MaxInst

\* an rt_Scene object that is not alive: never constructed, its
\* constructor thrown, or destroyed
NoInst == [scn |-> -1, x_res |-> 0, y_res |-> 0, x_row |-> 0,
           frame |-> RT_NULL]
\* the last step was not a constructor call
NoCall == [scn |-> -1, frame |-> RT_NULL, err |-> ""]

\* the scene of the other specifications: object 1, constructed on the
\* description 0 with a frame of its own
SceneLive ==
    /\ scn = [d \in ScnData |->
                 [tag |-> "ARRAY", cam |-> TRUE,
                  lock |-> IF d = 0 THEN 1 ELSE RT_NULL]]
    /\ inst = [i \in Insts |->
                  IF i = 1
                  THEN [scn |-> 0, x_res |-> 1, y_res |-> 1,
                        x_row |-> RT_SIMD_WIDTH, frame |-> RT_SIMD_ALIGN]
                  ELSE NoInst]
    /\ ctor = NoCall

\* A list as seen through its head: st is "null" (RT_NULL), "cur" (elements
\* allocated from the pools reserved by the running frame) or "stale" (never
\* written, or elements of pools that have been released since).
NullList    == [st |-> "null", el |-> <<>>]
StaleList   == [st |-> "stale", el |-> <<>>]
CurList(s)  == [st |-> IF s = <<>> THEN "null" ELSE "cur", el |-> s]

\* address of the tile-list element of surface i inside one tile list
\* (non-zero, one element per surface and tile)
ElemAddr(i) == i + 1

Srfs  == 0 .. (srf_num - 1)
Thrds == 0 .. (thnum - 1)
Rows  == 0 .. (GridRows - 1)
Cols  == 0 .. (GridCols - 1)

tiles_in_row == GridCols
tiles_in_col == GridRows

(***************************************************************************)
(* rt_SceneThread::stile, the part that turns the per-row bounds left by   *)
(* the bbox projection (txmin/txmax) into the surface's tile list.         *)
(***************************************************************************)
\* bounds as reset before the projection: no tile marked
ResetBounds == [r \in Rows |-> <<tiles_in_row, -1>>]
\* bounds of a surface without bounding vertices: every tile marked
AllBounds   == [r \in Rows |-> <<0, tiles_in_row - 1>>]

\* elm->data = i << 16 | j
TileData(i, j) == i * 65536 + j
\* the column is read from the high half as well
TileColHigh(data) == data \div 65536

\* i = data >> 16, j = data & 0xFFFF
TileRow(data) == data \div 65536
TileCol(data) == data % 65536

\* the last marked column is left out
FillRowOpen(i, b, srf) ==
    [k \in 1 .. (IF b[i][2] > b[i][1] THEN b[i][2] - b[i][1] ELSE 0) |->
        [data |-> TileData(i, b[i][1] + k - 1), temp |-> srf]]

\* for (j = txmin[i]; j <= txmax[i]; j++) append element of tile (i, j)
FillRow(i, b, srf) ==
    [k \in 1 .. (IF b[i][2] >= b[i][1] THEN b[i][2] - b[i][1] + 1 ELSE 0) |->
        [data |-> TileData(i, b[i][1] + k - 1), temp |-> srf]]

\* the rows are filled from the last to the first
RECURSIVE FillRowsDown(_, _, _)
FillRowsDown(i, b, srf) ==
    IF i >= tiles_in_col THEN <<>>
    ELSE FillRowsDown(i + 1, b, srf) \o FillRow(i, b, srf)

RECURSIVE FillRows(_, _, _)
FillRows(i, b, srf) ==
    IF i >= tiles_in_col THEN <<>>
    ELSE FillRow(i, b, srf) \o FillRows(i + 1, b, srf)

\* the tile list stile leaves in s_srf->msc_p[0]
stile(tiling, b, srf) ==
    IF ~tiling THEN NullList ELSE CurList(FillRows(0, b, srf))

(***************************************************************************)
(* Tile-grid assembly of rt_Scene::render ("screen tiling").               *)
(***************************************************************************)
TileIdx == 0 .. (tiles_in_row * tiles_in_col - 1)

\* arr[0] of insert, the test of the assembly: the surface's transform
\* array, when it has one that is not the surface itself
SrfTrnode(trn, srf) ==
    IF trn[srf.id] # NullNode /\ trn[srf.id] # srf THEN trn[srf.id]
    ELSE NullNode

\* the copy is walked in the order of slist
ForwardCopy(lst, stail) == lst \o stail

\* build exact copy of reversed slist: every copy is inserted as list head
RECURSIVE ReversedCopy(_, _)
ReversedCopy(lst, stail) ==
    IF lst = <<>> THEN stail
    ELSE ReversedCopy(Tail(lst), <<Head(lst)>> \o stail)

\* the tile's head is never checked: every element gets a new trnode element
InsertTileNoReuse(tl, tls, srf, arr) ==
    LET i     == TileRow(tls.data)
        j     == TileCol(tls.data)
        tline == i * tiles_in_row
        cur   == tl[tline + j]
        elm   == [tls EXCEPT !.data = 0]
    IN  IF arr # NullNode
        THEN [tl EXCEPT ![tline + j] =
                 <<[data |-> ElemAddr(srf.id), temp |-> arr], elm>> \o cur]
        ELSE [tl EXCEPT ![tline + j] = <<elm>> \o cur]

\* one element "tls" of a surface's tile list goes into its tile
InsertTile(tl, tls, srf, arr) ==
    LET i     == TileRow(tls.data)
        j     == TileCol(tls.data)
        tline == i * tiles_in_row
        cur   == tl[tline + j]
        elm   == [tls EXCEPT !.data = 0]
    IN  IF arr # NullNode
        THEN IF cur # <<>> /\ Head(cur).temp = arr
             THEN \* insert element under existing trnode
                  [tl EXCEPT ![tline + j] = <<Head(cur), elm>> \o Tail(cur)]
             ELSE \* insert element as list head, then a new trnode element
                  [tl EXCEPT ![tline + j] =
                      <<[data |-> ElemAddr(srf.id), temp |-> arr], elm>> \o cur]
        ELSE \* insert element as list head
             [tl EXCEPT ![tline + j] = <<elm>> \o cur]

\* for (; tls != RT_NULL; tls = nxt): the surface's tile list is walked, the
\* tiles it names are tiles of the tilebuffer (stile names no other)
RECURSIVE InsertTiles(_, _, _, _)
InsertTiles(tl, tlist, srf, arr) ==
    IF tlist = <<>> THEN tl
    ELSE IF TileRow(Head(tlist).data) * tiles_in_row + TileCol(Head(tlist).data)
                \notin DOMAIN tl
         THEN tl
         ELSE InsertTiles(InsertTile(tl, Head(tlist), srf, arr), Tail(tlist),
                          srf, arr)

\* traverse reversed slist, trnode elements of slist are skipped
RECURSIVE AssembleFrom(_, _, _, _)
AssembleFrom(tl, stail, tlists, trn) ==
    IF stail = <<>> THEN tl
    ELSE LET obj == Head(stail).temp
         IN  IF RT_IS_ARRAY(obj)
             THEN AssembleFrom(tl, Tail(stail), tlists, trn)
             ELSE AssembleFrom(
                      InsertTiles(tl, tlists[obj.id], obj, SrfTrnode(trn, obj)),
                      Tail(stail), tlists, trn)

\* memset(tiles, 0, ...), then the two loops
AssembleTiles(lst, tlists, trn) ==
    AssembleFrom([t \in TileIdx |-> <<>>], ReversedCopy(lst, <<>>), tlists, trn)

(***************************************************************************)
(* The global surface list: rt_SceneThread::ssort(cam).  Every surface of  *)
(* the srf_head list is inserted; insert keeps the surfaces of one trnode  *)
(* in the sublist of one array element, sorts each level by bbox_sort (an  *)
(* order that depends on the geometry) and filter flattens the hierarchy:  *)
(* the array element, then its surfaces.  The camera is no surface, so no  *)
(* bvnode elements are made.                                               *)
(***************************************************************************)
Perms(S) == {f \in [1 .. Cardinality(S) -> S] :
                \A a, b \in 1 .. Cardinality(S) : a # b => f[a] # f[b]}

\* surfaces of one array stay together (they share its sublist)
Grouped(f, trn) ==
    \A a, b, c \in DOMAIN f :
        (a < b /\ b < c
         /\ SrfTrnode(trn, Surface(f[a])) # NullNode
         /\ SrfTrnode(trn, Surface(f[a])) = SrfTrnode(trn, Surface(f[c])))
        => SrfTrnode(trn, Surface(f[b])) = SrfTrnode(trn, Surface(f[a]))

\* index of the last surface of the group that starts at position a
RECURSIVE GroupLast(_, _, _)
GroupLast(f, trn, a) ==
    IF a < Len(f)
       /\ SrfTrnode(trn, Surface(f[a + 1])) = SrfTrnode(trn, Surface(f[a]))
    THEN GroupLast(f, trn, a + 1)
    ELSE f[a]

\* the flat list: an array element heads each group, its "data" holds the
\* group's last element and the node's type (0, trnode) in the low 2 bits
RECURSIVE Flatten(_, _, _)
Flatten(f, trn, a) ==
    IF a > Len(f) THEN <<>>
    ELSE LET srf == Surface(f[a])
             arr == SrfTrnode(trn, srf)
             own == <<[data |-> 0, temp |-> srf]>>
         IN  IF arr # NullNode
                /\ (a = 1 \/ SrfTrnode(trn, Surface(f[a - 1])) # arr)
             THEN <<[data |-> 4 * ElemAddr(GroupLast(f, trn, a)), temp |-> arr]>>
                  \o own \o Flatten(f, trn, a + 1)
             ELSE own \o Flatten(f, trn, a + 1)

SlistChoices(n, trn) ==
    {Flatten(f, trn, 1) : f \in {g \in Perms(0 .. (n - 1)) : Grouped(g, trn)}}

\* the global light list: rt_SceneThread::lsort(cam), one element per light,
\* inserted as list head, "shw" is the list its data field refers to (slist)
Light(k) == [tag |-> "LIGHT", id |-> k]
LlistOf(n, shw) ==
    [st  |-> IF n = 0 THEN "null" ELSE "cur",
     el  |-> [k \in 1 .. n |-> [data |-> 0, temp |-> Light(n - k)]],
     shw |-> IF n = 0 THEN "null" ELSE shw]

(***************************************************************************)
(* rt_Scene::render, one frame after another.                              *)
(*                                                                         *)
(* slice[w] is the slice thread w was tasked with: ph is 1 or 2 for        *)
(* update_slice(w, ph) and 3 for render_slice(w, 0); i is the index of its *)
(* loop over the srf_head list; st is "wait" (not called yet), "run" or    *)
(* "done" (returned).                                                      *)
(***************************************************************************)
\* the filter without the modulus
MineNoWrap(i, index) == i = index

\* update_slice: "if ((i % thnum) != index) continue;"
Mine(i, index) == (i % thnum) = index

\* the loop of update_slice from index i on: the next index it does not skip
\* (srf_num when it skips all that are left)
NextMine(i, index) ==
    IF \E j \in i .. (srf_num - 1) : Mine(j, index)
    THEN CHOOSE j \in i .. (srf_num - 1) :
             Mine(j, index) /\ \A k \in i .. (j - 1) : ~Mine(k, index)
    ELSE srf_num

\* the call returns as soon as one slice has
JoinedAny == \E w \in Thrds : slice[w].st = "done"

\* the call does not wait at all
JoinedNoWait == TRUE

\* the call waits for slice 0 alone
JoinedFirst == slice[0].st = "done"

\* f_update, f_render: "block until finished"
Joined == \A w \in Thrds : slice[w].st = "done"

\* f_update/f_render task the pool: the platform's threads run the slices in
\* parallel, the local stubs update_scene/render_scene call them in turn
Task(ph) ==
    [w \in Thrds |->
        [ph |-> ph, i |-> 0,
         st |-> IF opts.thread \/ w = 0 THEN "run" ELSE "wait"]]

\* slice w returns; in the stubs' loop the next slice is called
Return(w) ==
    [v \in Thrds |->
        IF v = w THEN [slice[w] EXCEPT !.st = "done"]
        ELSE IF v = w + 1 /\ slice[v].st = "wait"
             THEN [slice[v] EXCEPT !.st = "run"]
             ELSE slice[v]]

\* state of a list freshly allocated from the pool of thread w
Fresh(w) == IF thpool[w] THEN "cur" ELSE "stale"

NoEvt == [done |-> {}, run |-> {}, fin |-> [p \in 1 .. 3 |-> 0]]

\* the geometry of a frame, as far as the tilebuffer sees it: every surface
\* covers the whole tilebuffer, or surface i covers row i % tiles_in_col
FrameBounds ==
    {[i \in Srfs |-> AllBounds],
     [i \in Srfs |-> [r \in Rows |->
         IF r = i % tiles_in_col THEN <<0, tiles_in_row - 1>>
         ELSE <<tiles_in_row, -1>>]]}

\* the transform arrays of the scene: none, one array over all surfaces, or
\* surfaces 0 and 1 under one array and surface 2 its own trnode
SceneTrnodes(n) ==
    {[i \in 0 .. (n - 1) |-> NullNode],
     [i \in 0 .. (n - 1) |-> Array(1)],
     [i \in 0 .. (n - 1) |->
         IF i < 2 THEN Array(1) ELSE IF i = 2 THEN Surface(i) ELSE NullNode]}

\* no call of tiling so far
NoSeg == [p1 |-> <<>>, p2 |-> <<>>, m |-> <<>>]

\* the scratch rows as stile resets them, the rasterizer not in use
RasterIdle ==
    /\ tiling_ext = FALSE
    /\ txmin = [r \in Rows |-> tiles_in_row]
    /\ txmax = [r \in Rows |-> -1]
    /\ oob = FALSE
    /\ seg = NoSeg

\* no bbox is being projected
ClipperIdle ==
    /\ shape = [cls |-> <<>>, pos |-> <<>>, edges |-> <<>>, clip |-> <<>>]
    /\ verts = <<>>
    /\ calls = <<>>

\* a list slot that is RT_NULL, no element allocated
NoHeap == [head |-> [p |-> 0, k |-> 0, s |-> NullNode], top |-> 0,
           next |-> <<>>, data |-> <<>>, simd |-> <<>>, temp |-> <<>>]

NoLog == [arrived |-> <<>>, ret |-> 0, err |-> "", filtered |-> 0,
          before |-> NoHeap, slot |-> 0]

\* no call of insert is in progress
NoLoc == [pc |-> "idle", s |-> <<>>, w |-> <<>>]

\* no list is being built
BuilderIdle ==
    /\ nodes = [obj |-> NullNode, sort |-> FALSE, bvnode |-> <<>>,
                parent |-> <<>>]
    /\ bbox_sort = <<>>
    /\ heap = NoHeap
    /\ log = NoLog
    /\ reqs = {}
    /\ loc = NoLoc

Init ==
    /\ SceneLive
    /\ thnum \in 1 .. MaxThreads
    /\ srf_num \in 0 .. MaxSrf
    /\ lgt_num \in 0 .. MaxLgt
    /\ opts \in [thread : BOOLEAN, tiling : BOOLEAN]
    /\ trnode \in SceneTrnodes(srf_num)
    /\ pc = "idle"
    /\ mpool = FALSE
    /\ thpool = [w \in Thrds |-> FALSE]
    /\ slice = [w \in Thrds |-> [ph |-> 0, i |-> 0, st |-> "done"]]
    /\ bounds = [i \in Srfs |-> ResetBounds]
    /\ slist = StaleList
    /\ llist = [st |-> "stale", el |-> <<>>, shw |-> "stale"]
    /\ msc_p = [i \in Srfs |-> StaleList]
    /\ lst_p = [i \in Srfs |-> [s |-> "stale", l |-> "stale"]]
    /\ tiles = [st |-> "stale", el |-> [t \in TileIdx |-> <<>>]]
    /\ did = [p \in 1 .. 2 |-> [i \in Srfs |-> <<>>]]
    /\ scratch = [w \in Thrds |-> -1]
    /\ evt = NoEvt
    /\ rd = {}
    /\ RasterIdle
    /\ ClipperIdle
    /\ BuilderIdle

scene == <<scn, inst, ctor, thnum, srf_num, lgt_num, opts, trnode>>
raster == <<tiling_ext, txmin, txmax, oob, seg>>
clipper == <<shape, verts, calls>>
builder == <<nodes, bbox_sort, heap, log, reqs, loc>>

\* reserve memory for temporary per-frame allocs
Reserve ==
    /\ pc = "idle"
    /\ pc' = "update0"
    /\ mpool' = TRUE
    /\ thpool' = [w \in Thrds |-> TRUE]
    /\ did' = [p \in 1 .. 2 |-> [i \in Srfs |-> <<>>]]
    /\ scratch' = scratch
    /\ evt' = [NoEvt EXCEPT !.done = IF "release" \in evt.done
                                     THEN {"again"} ELSE {}]
    /\ rd' = {}
    /\ UNCHANGED <<scene, raster, clipper, builder, slice, bounds, slist, llist, msc_p, lst_p, tiles>>

\* update the whole objects hierarchy (phase 0), rays and tiles steppers
Phase0 ==
    /\ pc = "update0"
    /\ pc' = "task1"
    /\ bounds' \in FrameBounds
    /\ evt' = [evt EXCEPT !.done = @ \cup {"hier"}]
    /\ rd' = {}
    /\ UNCHANGED <<scene, raster, clipper, builder, mpool, thpool, slice, slist, llist, msc_p, lst_p,
                   tiles, did, scratch>>

\* f_update(tdata, thnum, ph) / update_scene(this, thnum, ph) is entered
TaskUpdate(ph) ==
    /\ pc = IF ph = 1 THEN "task1" ELSE "task2"
    /\ pc' = IF ph = 1 THEN "wait1" ELSE "wait2"
    /\ slice' = Task(ph)
    /\ rd' = {}
    /\ UNCHANGED <<scene, raster, clipper, builder, mpool, thpool, bounds, slist, llist, msc_p, lst_p,
                   tiles, did, scratch, evt>>

\* every thread writes the scratch of thread 0
StileScratchShared(w, i) ==
    IF opts.tiling THEN [scratch EXCEPT ![0] = i] ELSE scratch

\* tharr[w]->stile(srf) for surface i: with tiling on it resets and fills
\* the txmin, txmax (and verts) of thread w
StileScratch(w, i) ==
    IF opts.tiling THEN [scratch EXCEPT ![w] = i] ELSE scratch

\* update_slice(w, 1), its loop up to and including the next surface it
\* does not skip: srf->update and the rebuild of the per-surface tile list
UpdateSlice1(w) ==
    /\ slice[w].ph = 1 /\ slice[w].st = "run"
    /\ NextMine(slice[w].i, w) < srf_num
    /\ LET i == NextMine(slice[w].i, w)
       IN  /\ slice' = [slice EXCEPT ![w].i = i + 1]
           /\ msc_p' = [msc_p EXCEPT ![i] =
                  LET l == stile(opts.tiling, bounds[i], Surface(i))
                  IN  IF l.st = "cur" THEN [l EXCEPT !.st = Fresh(w)] ELSE l]
           /\ did' = [did EXCEPT ![1][i] = Append(@, w)]
           /\ scratch' = StileScratch(w, i)
    /\ evt' = [evt EXCEPT !.run = @ \cup {1}]
    /\ rd' = {}
    /\ UNCHANGED <<scene, raster, clipper, builder, pc, mpool, thpool, bounds, slist, llist, lst_p, tiles>>

\* update_slice(w, 2), its loop up to and including the next surface it
\* does not skip: ssort(srf), lsort(srf), update0.
\* ssort sets the surface slots to slist, or rebuilds them from inserts
\* ("own", by RT_OPTS_RENDER and the surface's material); lsort sets the
\* light slots to llist, or rebuilds them ("shadow", by RT_OPTS_SHADOW),
\* and then every new light element refers to slist.
UpdateSlice2(w) ==
    /\ slice[w].ph = 2 /\ slice[w].st = "run"
    /\ NextMine(slice[w].i, w) < srf_num
    /\ LET i == NextMine(slice[w].i, w)
       IN  /\ slice' = [slice EXCEPT ![w].i = i + 1]
           /\ \E own, shadow \in BOOLEAN :
                /\ lst_p' = [lst_p EXCEPT ![i] =
                       [s |-> IF own THEN Fresh(w) ELSE slist.st,
                        l |-> IF shadow THEN Fresh(w) ELSE llist.st]]
                /\ rd' = (IF own THEN {} ELSE {slist.st})
                         \cup (IF shadow
                               THEN (IF lgt_num > 0 THEN {slist.st} ELSE {})
                               ELSE {llist.st})
           /\ did' = [did EXCEPT ![2][i] = Append(@, w)]
           /\ scratch' = scratch
    /\ evt' = [evt EXCEPT !.run = @ \cup {2}]
    /\ UNCHANGED <<scene, raster, clipper, builder, pc, mpool, thpool, bounds, slist, llist, msc_p, tiles>>

\* update_slice(w, ph) skips what is left of the list and returns
UpdateReturn(w) ==
    /\ slice[w].ph \in {1, 2} /\ slice[w].st = "run"
    /\ NextMine(slice[w].i, w) >= srf_num
    /\ slice' = Return(w)
    /\ evt' = [evt EXCEPT !.run = @ \cup {slice[w].ph},
                          !.fin[slice[w].ph] = @ + 1]
    /\ rd' = {}
    /\ UNCHANGED <<scene, raster, clipper, builder, pc, mpool, thpool, bounds, slist, llist, msc_p,
                   lst_p, tiles, did, scratch>>

\* surfaces met by the walk over slist
ListSrfs(l) == {l[k].temp.id : k \in {n \in DOMAIN l : RT_IS_SURFACE(l[n].temp)}}

\* the global lists are left as the frame before left them
RebuildNone ==
    /\ pc = "wait1" /\ Joined
    /\ pc' = "task2"
    /\ rd' = {}
    /\ evt' = [evt EXCEPT !.done = @ \cup {"lists"}]
    /\ UNCHANGED <<scene, raster, clipper, builder, mpool, thpool, slice, bounds, slist, llist, msc_p, lst_p, tiles, did, scratch>>

\* root->update_bounds(), then the global lists are rebuilt by thread 0:
\* slist = tharr[0]->ssort(cam); llist = tharr[0]->lsort(cam), whose light
\* elements take slist as their shadow list
Rebuild ==
    /\ pc = "wait1" /\ Joined
    /\ pc' = "task2"
    /\ \E l \in SlistChoices(srf_num, trnode) :
           slist' = [st |-> IF l = <<>> THEN "null" ELSE Fresh(0), el |-> l]
    /\ llist' = LET ll == LlistOf(lgt_num, slist'.st)
                IN  IF ll.st = "cur" THEN [ll EXCEPT !.st = Fresh(0)] ELSE ll
    /\ rd' = IF lgt_num > 0 THEN {slist'.st} ELSE {}
    /\ evt' = [evt EXCEPT !.done = @ \cup {"lists"}]
    /\ UNCHANGED <<scene, raster, clipper, builder, mpool, thpool, slice, bounds, msc_p, lst_p, tiles, did, scratch>>

\* what is left of a surface's tile list once its elements are linked into
\* the tile lists: its head element and whatever follows it in that tile
RECURSIVE From(_, _)
From(l, srf) ==
    IF l = <<>> THEN <<>>
    ELSE IF Head(l).temp = srf THEN l ELSE From(Tail(l), srf)

Relinked(tl, old, srf) ==
    IF old.el = <<>> THEN old
    ELSE [old EXCEPT !.el =
             From(tl[TileRow(Head(old.el).data) * tiles_in_row
                     + TileCol(Head(old.el).data)], srf)]

\* screen tiling: the tilebuffer is rebuilt from slist and the tile lists,
\* or every tile is given slist when tiling is off
TileGrid ==
    /\ pc = "wait2" /\ Joined
    /\ pc' = "task3"
    /\ IF opts.tiling
       THEN LET heads == {slist.st} \cup
                         (IF slist.st = "stale" THEN {}
                          ELSE {msc_p[i].st : i \in ListSrfs(slist.el)})
            IN  /\ rd' = heads
                /\ IF "stale" \in heads \/ ~mpool
                   THEN /\ tiles' = [st |-> "stale",
                                     el |-> [t \in TileIdx |-> <<>>]]
                        /\ UNCHANGED msc_p
                   ELSE \E tl \in {AssembleTiles(slist.el,
                                       [i \in Srfs |-> msc_p[i].el], trnode)} :
                        /\ tiles' = [st |-> "cur", el |-> tl]
                        /\ msc_p' = [i \in Srfs |->
                               IF i \in ListSrfs(slist.el)
                               THEN Relinked(tl, msc_p[i], Surface(i))
                               ELSE msc_p[i]]
       ELSE /\ rd' = {slist.st}
            /\ tiles' = [st |-> IF slist.st = "stale" THEN "stale" ELSE "cur",
                         el |-> [t \in TileIdx |-> slist.el]]
            /\ UNCHANGED msc_p
    /\ evt' = [evt EXCEPT !.done = @ \cup {"grid"}]
    /\ UNCHANGED <<scene, raster, clipper, builder, mpool, thpool, slice, bounds, slist, llist, lst_p, did, scratch>>

\* f_render(tdata, thnum, 0) / render_scene(this, thnum, 0) is entered
TaskRender ==
    /\ pc = "task3"
    /\ pc' = "wait3"
    /\ slice' = Task(3)
    /\ rd' = {}
    /\ UNCHANGED <<scene, raster, clipper, builder, mpool, thpool, bounds, slist, llist, msc_p, lst_p,
                   tiles, did, scratch, evt>>

\* render_slice(w, 0): the backend renders from the tilebuffer, the global
\* lists and the per-surface lists, and writes none of them
RenderSlice(w) ==
    /\ slice[w].ph = 3 /\ slice[w].st = "run"
    /\ slice' = Return(w)
    /\ rd' = {tiles.st, slist.st, llist.st, llist.shw}
             \cup {lst_p[i].s : i \in Srfs} \cup {lst_p[i].l : i \in Srfs}
    /\ evt' = [evt EXCEPT !.run = @ \cup {3}, !.fin[3] = @ + 1]
    /\ UNCHANGED <<scene, raster, clipper, builder, pc, mpool, thpool, bounds, slist, llist, msc_p,
                   lst_p, tiles, did, scratch>>

\* release memory from temporary per-frame allocs: every element of the
\* frame is gone, what the heads hold is left over from a past frame
Release ==
    /\ pc = "wait3" /\ Joined
    /\ pc' = "idle"
    /\ mpool' = FALSE
    /\ thpool' = [w \in Thrds |-> FALSE]
    /\ slist' = StaleList
    /\ llist' = [st |-> "stale", el |-> <<>>, shw |-> "stale"]
    /\ msc_p' = [i \in Srfs |-> StaleList]
    /\ lst_p' = [i \in Srfs |-> [s |-> "stale", l |-> "stale"]]
    /\ tiles' = [st |-> "stale", el |-> [t \in TileIdx |-> <<>>]]
    /\ evt' = [evt EXCEPT !.done = @ \cup {"release"}]
    /\ rd' = {}
    /\ UNCHANGED <<scene, raster, clipper, builder, slice, bounds, did, scratch>>

\* rt_Scene::set_opts, between two frames
SetOpts ==
    /\ pc = "idle"
    /\ \E o \in [thread : BOOLEAN, tiling : BOOLEAN] : o # opts /\ opts' = o
    /\ rd' = {}
    /\ UNCHANGED <<scn, inst, ctor, thnum, srf_num, lgt_num, trnode, pc,
                   mpool, thpool, slice, bounds, slist, llist, msc_p, lst_p, tiles, did, scratch, evt, raster,
                   clipper, builder>>

Next ==
    \/ Reserve
    \/ Phase0
    \/ \E ph \in 1 .. 2 : TaskUpdate(ph)
    \/ \E w \in Thrds : UpdateSlice1(w)
    \/ \E w \in Thrds : UpdateSlice2(w)
    \/ \E w \in Thrds : UpdateReturn(w)
    \/ Rebuild
    \/ TileGrid
    \/ TaskRender
    \/ \E w \in Thrds : RenderSlice(w)
    \/ Release
    \/ SetOpts

Spec == Init /\ [][Next]_vars

(***************************************************************************)
(* Properties of the frame pipeline (specification Spec).                  *)
(***************************************************************************)
AllPools == mpool /\ \A w \in Thrds : thpool[w]

\* some slice of the render pass has been tasked and has not returned yet
Rendering == \E w \in Thrds : slice[w].ph = 3 /\ slice[w].st # "done"

\* C1: in each update phase every surface index i is processed by exactly
\* one worker, the worker i % thnum: never by another one, never twice, and
\* once all thnum slices of the phase have returned no surface is left out.
C1_PartitionComplete ==
    \A p \in 1 .. 2 : \A i \in Srfs :
        /\ did[p][i] \in {<<>>, <<i % thnum>>}
        /\ evt.fin[p] = thnum => did[p][i] = <<i % thnum>>

\* both phases done by two workers on three surfaces: worker 0 has two
C1_Witness ==
    /\ thnum = 2 /\ srf_num = 3 /\ opts.thread
    /\ evt.fin[1] = 2 /\ evt.fin[2] = 2
    /\ did[2][0] = <<0>> /\ did[2][1] = <<1>> /\ did[2][2] = <<0>>

\* C2: phase 0 is complete before any phase-1 slice runs, all phase-1
\* slices have returned before any phase-2 slice runs, all phase-2 slices
\* have returned before the tile grid is assembled and before any render
\* slice runs; the slices that run at one time all belong to one phase.
C2_PhaseBarriers ==
    /\ 1 \in evt.run => "hier" \in evt.done
    /\ 2 \in evt.run => evt.fin[1] = thnum
    /\ "grid" \in evt.done => evt.fin[2] = thnum
    /\ 3 \in evt.run => evt.fin[2] = thnum /\ "grid" \in evt.done
    /\ \A v, w \in Thrds :
           slice[v].st = "run" /\ slice[w].st = "run" => slice[v].ph = slice[w].ph

\* the render pass with one slice returned and the other still running
C2_Witness ==
    /\ thnum = 2 /\ srf_num = 3 /\ opts.thread
    /\ evt.fin[3] = 1
    /\ \E w \in Thrds : slice[w].ph = 3 /\ slice[w].st = "run"

\* C3 as stated: the global lists are rebuilt only once all phase-2 slices
\* have returned.
C3_ListsAfterPhase2 ==
    "lists" \in evt.done => evt.fin[2] = thnum

\* C3 amended: the global lists are rebuilt by the main thread once all
\* phase-1 slices have returned and before any phase-2 slice runs; the tile
\* grid is rebuilt once all phase-2 slices have returned.
C3_ListsBetweenPhases ==
    /\ "lists" \in evt.done => evt.fin[1] = thnum
    /\ 2 \in evt.run => "lists" \in evt.done
    /\ "lists" \in evt.done /\ "grid" \notin evt.done /\ 2 \notin evt.run
           => evt.fin[2] = 0
    /\ "grid" \in evt.done => "lists" \in evt.done /\ evt.fin[2] = thnum

\* the lists are there, phase 2 has yet to run, on a scene with surfaces
C3_Witness ==
    /\ "lists" \in evt.done /\ 2 \notin evt.run
    /\ srf_num = 3 /\ thnum = 2 /\ slist.st = "cur" /\ Len(slist.el) >= 3

\* C4: the tile grid is built, all of it in the running frame, before the
\* first render slice is tasked, and it is not written while a render slice
\* has yet to return.
C4_GridReadOnly ==
    /\ [](Rendering => "grid" \in evt.done /\ tiles.st = "cur")
    /\ [][Rendering => tiles' = tiles]_vars

\* a render slice has returned, another one runs, the grid holds elements
C4_Witness ==
    /\ Rendering /\ evt.fin[3] = 1 /\ opts.tiling
    /\ \E t \in TileIdx : Len(tiles.el[t]) >= 3

\* C5: the pools are reserved from the start of render until every slice
\* has returned, and no step reads a list head that was not written earlier
\* in the same frame (left by a frame whose pools have been released).
C5_FrameScoped ==
    /\ "stale" \notin rd
    /\ pc # "idle" => AllPools
    /\ (\E w \in Thrds : slice[w].st # "done") => AllPools

\* a render slice of a later frame reads heads of that frame
C5_Witness ==
    /\ "again" \in evt.done /\ 3 \in evt.run /\ "cur" \in rd
    /\ srf_num = 3 /\ lgt_num = 1

(***************************************************************************)
(* The tile-grid assembly on its own (specification SpecGrid): render has  *)
(* reached the assembly, tiling is on, the phases before have left a       *)
(* global surface list and one tile list per surface.  The scenes, the     *)
(* footprints and the list orders are enumerated.                          *)
(***************************************************************************)
\* bounds the projection can leave for one surface: no tile, every tile,
\* the first column
Footprints ==
    {ResetBounds, AllBounds, [r \in Rows |-> <<0, 0>>]}

\* the trnode of surface i: none, one of two arrays, or (surface 0) itself
TrnodeChoices(i) ==
    {NullNode, Array(1), Array(2)} \cup (IF i = 0 THEN {Surface(0)} ELSE {})

\* the scenes: array 1 is the one met first in the srf_head list
GridTrnodes(n) ==
    {f \in [0 .. (n - 1) -> UNION {TrnodeChoices(i) : i \in 0 .. (n - 1)}] :
        \A i \in 0 .. (n - 1) :
            /\ f[i] \in TrnodeChoices(i)
            /\ f[i] = Array(2) => \E j \in 0 .. (i - 1) : f[j] = Array(1)}

InitGrid ==
    /\ SceneLive
    /\ thnum = 1
    /\ srf_num \in 0 .. MaxSrf
    /\ lgt_num = 0
    /\ opts = [thread |-> FALSE, tiling |-> TRUE]
    /\ trnode \in GridTrnodes(srf_num)
    /\ pc = "wait2"
    /\ mpool = TRUE
    /\ thpool = [w \in Thrds |-> TRUE]
    /\ slice = [w \in Thrds |-> [ph |-> 2, i |-> srf_num, st |-> "done"]]
    /\ \E l \in SlistChoices(srf_num, trnode) : slist = CurList(l)
    /\ bounds \in [Srfs -> Footprints]
    /\ llist = LlistOf(0, slist.st)
    /\ msc_p = [i \in Srfs |-> stile(TRUE, bounds[i], Surface(i))]
    /\ lst_p = [i \in Srfs |-> [s |-> slist.st, l |-> llist.st]]
    /\ tiles = [st |-> "stale", el |-> [t \in TileIdx |-> <<>>]]
    /\ did = [p \in 1 .. 2 |-> [i \in Srfs |-> <<0>>]]
    /\ scratch = [w \in Thrds |-> -1]
    /\ evt = [done |-> {"hier", "lists"}, run |-> {1, 2},
              fin |-> [p \in 1 .. 3 |-> IF p = 3 THEN 0 ELSE 1]]
    /\ rd = {}
    /\ RasterIdle
    /\ ClipperIdle
    /\ BuilderIdle

NextGrid == TileGrid

SpecGrid == InitGrid /\ [][NextGrid]_vars

\* the assembly has run with tiling on
Assembled == pc = "task3" /\ opts.tiling /\ tiles.st = "cur"

\* ids of the surfaces of a list, in list order
RECURSIVE SrfIds(_)
SrfIds(l) ==
    IF l = <<>> THEN <<>>
    ELSE IF RT_IS_SURFACE(Head(l).temp)
         THEN <<Head(l).temp.id>> \o SrfIds(Tail(l))
         ELSE SrfIds(Tail(l))

\* per surface the positions of its elements in the global surface list
SlistAt ==
    [i \in Srfs |-> {x \in DOMAIN slist.el : slist.el[x].temp = Surface(i)}]

\* the tiles named by a tile list; by the tile list stile built for surface i
TilesIn(tls) ==
    {t \in TileIdx :
        \E k \in DOMAIN tls :
            tls[k].data = TileData(t \div tiles_in_row, t % tiles_in_row)}

TilesOf(i) == UNION {TilesIn(tls) : tls \in {FillRows(0, bounds[i], Surface(i))}}

\* per surface of slist the tiles of its tile list, no tile for the others
Covered ==
    [i \in Srfs |-> IF i \in ListSrfs(slist.el) THEN TilesOf(i) ELSE {}]

\* C6: after the assembly the surfaces of every tile list are in the same
\* relative order as in the global surface list (A, B, C stay A, B, C).
C6_GridOrder ==
    Assembled =>
        \A at \in {SlistAt} : \A t \in TileIdx :
            \A ids \in {SrfIds(tiles.el[t])} :
                \A p, q \in DOMAIN ids :
                    p < q => \E x \in at[ids[p]], y \in at[ids[q]] : x < y

\* a tile holds three surfaces and the list order is not the index order
C6_Witness ==
    /\ Assembled /\ srf_num = 3
    /\ SrfIds(slist.el) = <<2, 0, 1>>
    /\ \E t \in TileIdx : SrfIds(tiles.el[t]) = <<2, 0, 1>>

\* C7: after the assembly surface S is in the list of a tile iff S is in the
\* global surface list and the tile is in the tile list stile built for S;
\* it is there once, and every other element of a tile list is a trnode
\* (array) element.
C7_GridComplete ==
    Assembled =>
        \A cov \in {Covered} : \A t \in TileIdx :
            \A ids \in {SrfIds(tiles.el[t])} :
                /\ \A i \in Srfs :
                       (\E k \in DOMAIN ids : ids[k] = i) <=> t \in cov[i]
                /\ \A p, q \in DOMAIN ids : p # q => ids[p] # ids[q]
                /\ \A k \in DOMAIN tiles.el[t] :
                       RT_IS_SURFACE(tiles.el[t][k].temp)
                       \/ RT_IS_ARRAY(tiles.el[t][k].temp)

\* one tile holds surface 1 after a trnode element, another tile does not
C7_Witness ==
    /\ Assembled /\ srf_num = 3
    /\ \E t, u \in TileIdx :
           /\ t \in Covered[1] /\ u \notin Covered[1]
           /\ \E k \in DOMAIN tiles.el[t] : tiles.el[t][k].temp = Surface(1)
           /\ \E k \in DOMAIN tiles.el[t] : RT_IS_ARRAY(tiles.el[t][k].temp)
           /\ tiles.el[u] # <<>>

\* C8: in every tile list a transform array has at most one element; the
\* element is followed at once by all surfaces of the array that cover the
\* tile, and by them alone until the last of them, to which its data field
\* refers.
C8_TileGroups ==
    Assembled =>
        \A cov \in {Covered} : \A t \in TileIdx : \A l \in {tiles.el[t]} :
            \A p \in DOMAIN l :
                RT_IS_ARRAY(l[p].temp) =>
                    \A grp \in {{Surface(i) : i \in
                                   {j \in Srfs : /\ t \in cov[j]
                                                 /\ SrfTrnode(trnode, Surface(j))
                                                        = l[p].temp}}} :
                        /\ \A q \in DOMAIN l : l[q].temp = l[p].temp => q = p
                        /\ grp # {} /\ p + Cardinality(grp) <= Len(l)
                        /\ {l[q].temp : q \in (p + 1) .. (p + Cardinality(grp))}
                               = grp
                        /\ l[p].data = ElemAddr(l[p + Cardinality(grp)].temp.id)

\* a tile with two surfaces under one array element and a surface of
\* another array after them
C8_Witness ==
    /\ Assembled
    /\ \E t \in TileIdx :
           /\ Len(tiles.el[t]) = 5
           /\ RT_IS_ARRAY(tiles.el[t][1].temp)
           /\ RT_IS_SURFACE(tiles.el[t][2].temp)
           /\ RT_IS_SURFACE(tiles.el[t][3].temp)
           /\ RT_IS_ARRAY(tiles.el[t][4].temp)

(***************************************************************************)
(* rt_SceneThread::tiling (specification SpecTiling).                      *)
(*                                                                         *)
(* rt_real is modelled exactly: a point handed to tiling has coordinates   *)
(* in 1/Unit of a tile, the values inside tiling are kept in 1/Den of a    *)
(* tile or as fractions.  The thresholds come from engine.h, which is not  *)
(* among the sources: RT_LINE_THRESHOLD is smaller than 1/Unit, so a delta *)
(* is below it when it is zero, RT_TILE_THRESHOLD is taken as 1/Unit.      *)
(***************************************************************************)
RT_LINE_THRESHOLD == 0
RT_TILE_THRESHOLD == 1

Den == Unit * Unit

RT_FABS(a) == IF a < 0 THEN -a ELSE a

\* RT_FLOOR of a value given in 1/Den of a tile
RT_FLOOR(a) == a \div Den

\* largest k with k * k <= a
Isqrt(a) == CHOOSE k \in 0 .. a : k * k <= a /\ (k + 1) * (k + 1) > a

\* inclusive bounds
xmin == 0
ymin == 0
xmax == tiles_in_row - 1
ymax == tiles_in_col - 1

RT_MAX(a, b) == IF a > b THEN a ELSE b
RT_MIN(a, b) == IF a < b THEN a ELSE b

\* the bounds are stored as they come
UpdateNoClamp(tx, cy, x1, x2) ==
    IF cy \notin DOMAIN tx.mn THEN [tx EXCEPT !.oob = TRUE]
    ELSE LET lo == RT_MIN(x1, x2)
             hi == RT_MAX(x1, x2)
         IN  [tx EXCEPT !.mn[cy] = IF @ > lo THEN lo ELSE @,
                        !.mx[cy] = IF @ < hi THEN hi ELSE @]

\* RT_UPDATE_TILES_BOUNDS(cy, x1, x2) on tx = [mn: txmin, mx: txmax, oob];
\* a row outside of the arrays is a write outside of them, which is
\* recorded in oob and not followed any further
RT_UPDATE_TILES_BOUNDS(tx, cy, x1, x2) ==
    IF cy \notin DOMAIN tx.mn THEN [tx EXCEPT !.oob = TRUE]
    ELSE IF x1 < x2
         THEN [tx EXCEPT !.mn[cy] = IF @ > x1 THEN RT_MAX(x1, xmin) ELSE @,
                         !.mx[cy] = IF @ < x2 THEN RT_MIN(x2, xmax) ELSE @]
         ELSE [tx EXCEPT !.mn[cy] = IF @ > x2 THEN RT_MAX(x2, xmin) ELSE @,
                         !.mx[cy] = IF @ < x1 THEN RT_MIN(x1, xmax) ELSE @]

\* swap points vertically if needed
Lower(p1, p2) == IF p1[2] > p2[2] THEN p2 ELSE p1
Upper(p1, p2) == IF p1[2] > p2[2] THEN p1 ELSE p2

\* prepare new lines with margins: the direction <<xx, yy>> and the slope rt
\* as the fraction <<numerator, denominator>>
Direction(dx, dy) ==
    IF RT_FABS(dx) <= RT_LINE_THRESHOLD /\ RT_FABS(dy) <= RT_LINE_THRESHOLD
    THEN <<IF dx < 0 THEN -1 ELSE 1, 1>>
    ELSE <<dx, dy>>

Slope(dx, dy) ==
    IF RT_FABS(dx) <= RT_LINE_THRESHOLD \/ RT_FABS(dy) <= RT_LINE_THRESHOLD
    THEN <<0, 1>>
    ELSE <<dx, dy>>

\* xx * px with px = RT_TILE_THRESHOLD / RT_SQRT(xx * xx + yy * yy), in 1/Den
\* of a tile: the exact value when it is a multiple of 1/Den, else either
\* of its two neighbours (the root and the products are rounded)
Scaled(c, len2) ==
    LET a  == RT_TILE_THRESHOLD * RT_TILE_THRESHOLD * Unit * Unit * c * c
        lo == Isqrt(a \div len2)
        sg == IF c < 0 THEN -1 ELSE 1
    IN  IF a % len2 = 0 /\ lo * lo = a \div len2 THEN {sg * lo}
        ELSE {sg * lo, sg * (lo + 1)}

\* the margins <<xx, yy>> a call can work with
Margins(p1, p2, ext) ==
    IF ~ext THEN {<<0, 0>>}
    ELSE LET d == Direction(Upper(p1, p2)[1] - Lower(p1, p2)[1],
                            Upper(p1, p2)[2] - Lower(p1, p2)[2])
             len2 == d[1] * d[1] + d[2] * d[2]
         IN  Scaled(d[1], len2) \X Scaled(d[2], len2)

\* the lines n1[i], n2[i] in 1/Den of a tile: one line, or the line made
\* longer by the margin and its two neighbours at the margin's distance
Lines(p1, p2, ext, m) ==
    LET a == <<Lower(p1, p2)[1] * Unit - m[1], Lower(p1, p2)[2] * Unit - m[2]>>
        b == <<Upper(p1, p2)[1] * Unit + m[1], Upper(p1, p2)[2] * Unit + m[2]>>
    IN  IF ext
        THEN <<[n1 |-> a, n2 |-> b],
               [n1 |-> <<a[1] - m[2], a[2] + m[1]>>,
                n2 |-> <<b[1] - m[2], b[2] + m[1]>>],
               [n1 |-> <<a[1] + m[2], a[2] - m[1]>>,
                n2 |-> <<b[1] + m[2], b[2] - m[1]>>]>>
        ELSE <<[n1 |-> <<Lower(p1, p2)[1] * Unit, Lower(p1, p2)[2] * Unit>>,
                n2 |-> <<Upper(p1, p2)[1] * Unit, Upper(p1, p2)[2] * Unit>>]>>

\* reject y-outer lines
Rejected(ln) == RT_FLOOR(ln.n1[2]) > ymax \/ RT_FLOOR(ln.n2[2]) < ymin

\* for (t = y1; t <= y2; t++) RT_UPDATE_TILES_BOUNDS(t, x1, x2)
RECURSIVE Span(_, _, _, _, _)
Span(tx, t, y2, x1, x2) ==
    IF t > y2 \/ tx.oob THEN tx
    ELSE Span(RT_UPDATE_TILES_BOUNDS(tx, t, x1, x2), t + 1, y2, x1, x2)

\* for (t = y1; t <= y2; t++) { px = px + rt; x2 = RT_FLOOR(px); ... }
\* px is the fraction num / den, rt is step / den
RECURSIVE Walk(_, _, _, _, _, _, _)
Walk(tx, t, y2, num, step, den, x1) ==
    IF t > y2 \/ tx.oob THEN [tx |-> tx, x1 |-> x1]
    ELSE Walk(RT_UPDATE_TILES_BOUNDS(tx, t, x1, (num + step) \div den),
              t + 1, y2, num + step, step, den, (num + step) \div den)

\* the row of the first step of a regular line is left out
RegularNoFirst(tx, ln, rt) ==
    LET y1  == IF RT_FLOOR(ln.n1[2]) < ymin THEN ymin
               ELSE RT_FLOOR(ln.n1[2]) + 1
        y2  == IF RT_FLOOR(ln.n2[2]) > ymax THEN ymax
               ELSE RT_FLOOR(ln.n2[2]) - 1
        den == Den * rt[2]
        num == ln.n1[1] * rt[2] + (y1 * Den - ln.n1[2]) * rt[1]
        w   == Walk(tx, y1, y2, num, Den * rt[1], den, num \div den)
    IN  IF y2 < ymax
        THEN RT_UPDATE_TILES_BOUNDS(w.tx, y2 + 1, w.x1, RT_FLOOR(ln.n2[1]))
        ELSE w.tx

\* process regular line
Regular(tx, ln, rt) ==
    LET y1  == IF RT_FLOOR(ln.n1[2]) < ymin THEN ymin
               ELSE RT_FLOOR(ln.n1[2]) + 1
        y2  == IF RT_FLOOR(ln.n2[2]) > ymax THEN ymax
               ELSE RT_FLOOR(ln.n2[2]) - 1
        den == Den * rt[2]
        num == ln.n1[1] * rt[2] + (y1 * Den - ln.n1[2]) * rt[1]
        t0  == IF y1 > ymin
               THEN RT_UPDATE_TILES_BOUNDS(tx, y1 - 1, RT_FLOOR(ln.n1[1]),
                                           num \div den)
               ELSE tx
        w   == Walk(t0, y1, y2, num, Den * rt[1], den, num \div den)
    IN  IF y2 < ymax
        THEN RT_UPDATE_TILES_BOUNDS(w.tx, y2 + 1, w.x1, RT_FLOOR(ln.n2[1]))
        ELSE w.tx

\* one pass of the loop over the lines
Line(tx, ln, rt) ==
    LET x1 == RT_FLOOR(ln.n1[1])
        y1 == RT_FLOOR(ln.n1[2])
        x2 == RT_FLOOR(ln.n2[1])
        y2 == RT_FLOOR(ln.n2[2])
    IN  IF Rejected(ln) THEN tx
        ELSE IF \/ x1 = x2 \/ y1 = y2 \/ rt[1] = 0
                \/ (x1 < xmin /\ x2 < xmin)
                \/ (x1 > xmax /\ x2 > xmax)
             THEN \* nearly vertical, nearly horizontal or x-outer line
                  Span(tx, RT_MAX(y1, ymin), RT_MIN(y2, ymax), x1, x2)
             ELSE Regular(tx, ln, rt)

RECURSIVE LinesFrom(_, _, _)
LinesFrom(tx, lns, rt) ==
    IF lns = <<>> \/ tx.oob THEN tx
    ELSE LinesFrom(Line(tx, Head(lns), rt), Tail(lns), rt)

\* tiling(p1, p2) working with the margin m
tiling(tx, p1, p2, ext, m) ==
    LinesFrom(tx, Lines(p1, p2, ext, m),
              Slope(Upper(p1, p2)[1] - Lower(p1, p2)[1],
                    Upper(p1, p2)[2] - Lower(p1, p2)[2]))

\* the points of the model: from one unit left of (above) the tilebuffer to
\* one unit past its right (lower) border
Points ==
    (-1 .. (tiles_in_row * Unit + 1)) \X (-1 .. (tiles_in_col * Unit + 1))

\* edges a surface has after its first one: the diagonal of the tilebuffer,
\* a line across it from outside to outside, lines above, below, left and
\* right of it, and a horizontal line inside
EdgeSegs ==
    LET r == tiles_in_row * Unit
        b == tiles_in_col * Unit
    IN  {<<<<1, 1>>, <<r - 1, b - 1>>>>,
         <<<<r + 1, -1>>, <<-1, b + 1>>>>,
         <<<<1, -1>>, <<r - 1, -1>>>>,
         <<<<1, b + 1>>, <<r - 1, b>>>>,
         <<<<-1, 1>>, <<-1, b - 1>>>>,
         <<<<r, b - 1>>, <<r + 1, 1>>>>,
         <<<<1, Unit + 1>>, <<r - 1, Unit + 1>>>>}

InitTiling ==
    /\ SceneLive
    /\ thnum = 1
    /\ srf_num = 1
    /\ lgt_num = 0
    /\ opts = [thread |-> FALSE, tiling |-> TRUE]
    /\ trnode = [i \in Srfs |-> NullNode]
    /\ pc = "idle"
    /\ mpool = FALSE
    /\ thpool = [w \in Thrds |-> FALSE]
    /\ slice = [w \in Thrds |-> [ph |-> 0, i |-> 0, st |-> "done"]]
    /\ bounds = [i \in Srfs |-> ResetBounds]
    /\ slist = StaleList
    /\ llist = [st |-> "stale", el |-> <<>>, shw |-> "stale"]
    /\ msc_p = [i \in Srfs |-> StaleList]
    /\ lst_p = [i \in Srfs |-> [s |-> "stale", l |-> "stale"]]
    /\ tiles = [st |-> "stale", el |-> [t \in TileIdx |-> <<>>]]
    /\ did = [p \in 1 .. 2 |-> [i \in Srfs |-> <<>>]]
    /\ scratch = [w \in Thrds |-> -1]
    /\ evt = NoEvt
    /\ rd = {}
    /\ tiling_ext \in BOOLEAN
    /\ txmin = [r \in Rows |-> tiles_in_row]
    /\ txmax = [r \in Rows |-> -1]
    /\ oob = FALSE
    /\ seg = NoSeg
    /\ ClipperIdle
    /\ BuilderIdle

pipeline == <<scene, pc, mpool, thpool, slice, bounds, slist, llist, msc_p,
              lst_p, tiles, did, scratch, evt, rd>>

\* stile resets the rows before it projects the bbox of the next surface
ResetTiles ==
    /\ seg # NoSeg
    /\ txmin' = [r \in Rows |-> tiles_in_row]
    /\ txmax' = [r \in Rows |-> -1]
    /\ seg' = NoSeg
    /\ UNCHANGED <<pipeline, clipper, builder, tiling_ext, oob>>

\* the segments of the next call: the first edge after the reset is any
\* segment, the edges after it are taken from EdgeSegs
CallSegs ==
    IF seg = NoSeg THEN Points \X Points
    ELSE IF <<seg.p1, seg.p2>> \in EdgeSegs THEN EdgeSegs ELSE {}

\* tiling(p1, p2)
Tiling(p1, p2) ==
    /\ <<p1, p2>> \in CallSegs
    /\ \E m \in Margins(p1, p2, tiling_ext) :
           \E tx \in {tiling([mn |-> txmin, mx |-> txmax, oob |-> oob],
                             p1, p2, tiling_ext, m)} :
               /\ txmin' = tx.mn
               /\ txmax' = tx.mx
               /\ oob' = tx.oob
               /\ seg' = [p1 |-> p1, p2 |-> p2, m |-> m]
    /\ UNCHANGED <<pipeline, clipper, builder, tiling_ext>>

NextTiling ==
    \/ ResetTiles
    \/ \E s \in CallSegs : Tiling(s[1], s[2])

SpecTiling == InitTiling /\ [][NextTiling]_vars

(***************************************************************************)
(* Properties of the rasterizer (specification SpecTiling).                *)
(***************************************************************************)
\* the point lies in a tile of the tilebuffer
Inside(p) ==
    /\ 0 <= p[1] /\ p[1] < tiles_in_row * Unit
    /\ 0 <= p[2] /\ p[2] < tiles_in_col * Unit

\* the tiles <<row, column>> the segment from p1 to p2 passes through, a
\* tile taking its upper and its left border: between two crossings of tile
\* borders the tile stays the same, the crossings are at multiples of 1/dx
\* and 1/dy of the way, so the points at every 1/(2 dx dy) of the way meet
\* every tile
SegTiles(p1, p2) ==
    LET dx == p2[1] - p1[1]
        dy == p2[2] - p1[2]
        k  == 2 * RT_MAX(RT_FABS(dx), 1) * RT_MAX(RT_FABS(dy), 1)
    IN  {<<(p1[2] * k + j * dy) \div (k * Unit),
           (p1[1] * k + j * dx) \div (k * Unit)>> : j \in 0 .. k}

\* the floor rows of a point given in 1/Unit of a tile
PointRow(p) == p[2] \div Unit

\* both points lie in rows above the tilebuffer, or both below it
RowsOutside(p1, p2) ==
    \/ PointRow(p1) < ymin /\ PointRow(p2) < ymin
    \/ PointRow(p1) > ymax /\ PointRow(p2) > ymax

\* C9: after tiling(p1, p2) for a segment with both points inside the
\* tilebuffer every tile the segment passes through is marked in its row:
\* txmin[row] <= col <= txmax[row] (with or without margins, from the reset
\* rows or after other edges).
C9_TilingCoverage ==
    (seg # NoSeg /\ Inside(seg.p1) /\ Inside(seg.p2)) =>
        \A tl \in SegTiles(seg.p1, seg.p2) :
            txmin[tl[1]] <= tl[2] /\ tl[2] <= txmax[tl[1]]

\* the diagonal of the tilebuffer, from (0.5, 0.5) to the centre of the last
\* tile, is the first edge: every row has its column marked
C9_Witness ==
    /\ ~tiling_ext
    /\ seg.p1 = <<1, 1>>
    /\ seg.p2 = <<(tiles_in_row - 1) * Unit + 1, (tiles_in_col - 1) * Unit + 1>>
    /\ txmin[0] = 0 /\ txmax[ymax] = xmax
    /\ \A r \in Rows : txmin[r] <= txmax[r]

\* the rows stay in their ranges and no write leaves the arrays
TxRanges ==
    /\ ~oob
    /\ \A r \in Rows :
           /\ txmin[r] \in 0 .. tiles_in_row
           /\ txmax[r] \in -1 .. (tiles_in_row - 1)

\* C10 as stated: the ranges hold after any sequence of calls, in either
\* mode, and a segment whose points both lie in rows above or both in rows
\* below the tilebuffer changes nothing.
C10_ClampAnyMode ==
    /\ []TxRanges
    /\ [][(seg' # NoSeg /\ RowsOutside(seg'.p1, seg'.p2))
              => (txmin' = txmin /\ txmax' = txmax)]_vars

\* C10 amended: the ranges hold after any sequence of calls, in either
\* mode; without margins a segment whose points both lie in rows above or
\* both in rows below the tilebuffer changes nothing; with margins a call
\* changes nothing when each of its three lines is rejected.
C10_ClampInvariant ==
    /\ []TxRanges
    /\ [][(seg' # NoSeg /\ ~tiling_ext /\ RowsOutside(seg'.p1, seg'.p2))
              => (txmin' = txmin /\ txmax' = txmax)]_vars
    /\ [][(seg' # NoSeg /\ tiling_ext /\ \A i \in 1 .. 3 :
                Rejected(Lines(seg'.p1, seg'.p2, TRUE, seg'.m)[i]))
              => (txmin' = txmin /\ txmax' = txmax)]_vars

\* without margins: earlier edges have marked tiles in every row, clamped
\* at both borders, then an edge above the tilebuffer left them as they were
C10_Witness ==
    /\ ~tiling_ext /\ seg # NoSeg /\ RowsOutside(seg.p1, seg.p2)
    /\ \A r \in Rows : txmin[r] <= txmax[r]
    /\ \E r \in Rows : txmin[r] = xmin /\ txmax[r] = xmax

(***************************************************************************)
(* rt_SceneThread::stile, the projection of the bbox: the vertices are     *)
(* sorted into those in front of the screen plane, near it and behind it,  *)
(* the edges are clipped at the plane and passed to tiling.  The geometry  *)
(* is given by its outcome: shape.cls[k] is the side vertex k falls on,    *)
(* shape.pos[k] the place its projection falls on (in 1/Unit of a tile),   *)
(* shape.clip[e] the place the clipped vertex of edge e falls on.          *)
(* Vertices and edges are counted from 1.                                  *)
(***************************************************************************)
\* verts[k].pos[RT_W]: the tag of a vertex
TagOf(c) == IF c = "front" THEN 1 ELSE IF c = "near" THEN 0 ELSE -1

\* the first loop leaves vertex k: memset zero and the tag "behind", or its
\* projection with the tag "in front of" or "near"
Projected(sh, k) ==
    IF sh.cls[k] = "behind"
    THEN [org |-> <<"raw", k>>, pos |-> <<0, 0>>, tag |-> -1]
    ELSE [org |-> <<"proj", k>>, pos |-> sh.pos[k], tag |-> TagOf(sh.cls[k])]

\* slightly behind (near) screen plane, generate new vertex: the copies, in
\* the order of the vertices
RECURSIVE NearCopies(_, _)
NearCopies(sh, k) ==
    IF k > Len(sh.cls) THEN <<>>
    ELSE IF sh.cls[k] = "near"
         THEN <<[org |-> <<"copy", k>>, pos |-> sh.pos[k], tag |-> 0]>>
              \o NearCopies(sh, k + 1)
         ELSE NearCopies(sh, k + 1)

\* process bbox vertices
ProcessVerts(sh) ==
    [k \in 1 .. Len(sh.cls) |-> Projected(sh, k)] \o NearCopies(sh, 1)

\* no edge is skipped: every vertex behind the plane gets a clipped vertex
ProcessEdgeNoSkip(st, e, k, cp) ==
    LET tag == [i \in 1 .. 2 |-> st.verts[e[i]].tag]
        new == [org |-> <<"clip", k>>, pos |-> cp, tag |-> 0]
        v1  == IF tag[1] < 0 THEN Append(st.verts, new) ELSE st.verts
        v2  == IF tag[2] < 0 THEN Append(v1, new) ELSE v1
        ndx == [i \in 1 .. 2 |->
                   IF tag[i] >= 0 THEN e[i]
                   ELSE IF i = 1 THEN Len(v1) ELSE Len(v2)]
    IN  [verts |-> v2, calls |-> Append(st.calls, <<ndx[1], ndx[2]>>)]

\* the edge is passed to tiling as it is
ProcessEdgeNoClip(st, e, k, cp) ==
    LET tag == [i \in 1 .. 2 |-> st.verts[e[i]].tag]
    IN  IF tag[1] <= 0 /\ tag[2] <= 0
        THEN st
        ELSE [st EXCEPT !.calls = Append(@, <<e[1], e[2]>>)]

\* one edge: st = [verts, calls]; cp is where its clipped vertex falls
ProcessEdge(st, e, k, cp) ==
    LET tag == [i \in 1 .. 2 |-> st.verts[e[i]].tag]
    IN  IF tag[1] <= 0 /\ tag[2] <= 0
        THEN st
        ELSE LET new == Len(st.verts) + 1
                 ndx == [i \in 1 .. 2 |-> IF tag[i] >= 0 THEN e[i] ELSE new]
                 vs  == IF tag[1] < 0 \/ tag[2] < 0
                        THEN Append(st.verts,
                                    [org |-> <<"clip", k>>, pos |-> cp, tag |-> 0])
                        ELSE st.verts
             IN  [verts |-> vs,
                  calls |-> Append(st.calls, <<ndx[1], ndx[2]>>)]

\* process bbox edges
RECURSIVE ProcessEdges(_, _, _)
ProcessEdges(st, sh, k) ==
    IF k > Len(sh.edges) THEN st
    ELSE ProcessEdges(ProcessEdge(st, sh.edges[k], k, sh.clip[k]), sh, k + 1)

\* tile all newly generated vertex pairs
RECURSIVE NewPairs(_, _, _)
NewPairs(i, j, n) ==
    IF i >= n THEN <<>>
    ELSE IF j > n THEN NewPairs(i + 1, i + 2, n)
         ELSE <<<<i, j>>>> \o NewPairs(i, j + 1, n)

\* the scratch vertices and the calls of tiling for a bbox with vertices
Clipped(sh) ==
    LET st == ProcessEdges([verts |-> ProcessVerts(sh), calls |-> <<>>], sh, 1)
    IN  [verts |-> st.verts,
         calls |-> st.calls
                   \o NewPairs(Len(sh.cls) + 1, Len(sh.cls) + 2, Len(st.verts))]

\* the rows after the calls, from the rows txs: every call takes one of
\* its margins
RECURSIVE TiledFrom(_, _, _, _)
TiledFrom(txs, vs, cs, ext) ==
    IF cs = <<>> THEN txs
    ELSE TiledFrom(
             UNION {{tiling(tx, vs[Head(cs)[1]].pos, vs[Head(cs)[2]].pos, ext, m) :
                        m \in Margins(vs[Head(cs)[1]].pos,
                                      vs[Head(cs)[2]].pos, ext)} : tx \in txs},
             vs, Tail(cs), ext)

\* where the projections of the vertices fall, by vertex: inside the
\* tilebuffer, or left of it; where clipped vertices fall, by edge
VertPoints == <<<<1, 1>>, <<tiles_in_row * Unit - 1, tiles_in_col * Unit - 1>>,
                <<-1, Unit + 1>>>>
ClipPoints == <<<<1, tiles_in_col * Unit - 1>>, <<tiles_in_row * Unit + 1, 1>>>>

\* the edges of a bbox of n vertices: up to MaxEdges different pairs of
\* vertices, in any order, each pair given lower or higher vertex first
EdgeSeqs(n) ==
    LET prs == {e \in (1 .. n) \X (1 .. n) : e[1] < e[2]}
    IN  UNION {{q \in [1 .. len -> prs \cup {<<e[2], e[1]>> : e \in prs}] :
                   /\ \A a, b \in 1 .. len :
                          a # b => {q[a][1], q[a][2]} # {q[b][1], q[b][2]}
                   /\ \A a, b \in 1 .. len :
                          (q[a][1] < q[a][2]) = (q[b][1] < q[b][2])} :
               len \in 0 .. MaxEdges}

\* the bbox of n vertices with the sides c and the edges e
Shape(n, c, e) ==
    [cls |-> c, edges |-> e,
     pos |-> [k \in 1 .. n |-> VertPoints[((k - 1) % 3) + 1]],
     clip |-> [k \in DOMAIN e |-> ClipPoints[((k - 1) % 2) + 1]]]

\* update_slice(0, 1) has come to the surface, its bbox is given
InitStile ==
    /\ SceneLive
    /\ thnum = 1
    /\ srf_num = 1
    /\ lgt_num = 0
    /\ opts \in [thread : {FALSE}, tiling : BOOLEAN]
    /\ trnode = [i \in Srfs |-> NullNode]
    /\ pc = "wait1"
    /\ mpool = TRUE
    /\ thpool = [w \in Thrds |-> TRUE]
    /\ slice = [w \in Thrds |-> [ph |-> 1, i |-> 0, st |-> "run"]]
    /\ bounds = [i \in Srfs |-> ResetBounds]
    /\ slist = StaleList
    /\ llist = [st |-> "stale", el |-> <<>>, shw |-> "stale"]
    /\ msc_p = [i \in Srfs |-> StaleList]
    /\ lst_p = [i \in Srfs |-> [s |-> "stale", l |-> "stale"]]
    /\ tiles = [st |-> "stale", el |-> [t \in TileIdx |-> <<>>]]
    /\ did = [p \in 1 .. 2 |-> [i \in Srfs |-> <<>>]]
    /\ scratch = [w \in Thrds |-> -1]
    /\ evt = [NoEvt EXCEPT !.done = {"hier"}]
    /\ rd = {}
    /\ tiling_ext \in BOOLEAN
    /\ txmin = [r \in Rows |-> tiles_in_row]
    /\ txmax = [r \in Rows |-> -1]
    /\ oob = FALSE
    /\ seg = NoSeg
    /\ \E n \in 0 .. MaxVerts :
           \E c \in [1 .. n -> {"front", "near", "behind"}], e \in EdgeSeqs(n) :
               shape = Shape(n, c, e)
    /\ verts = <<>>
    /\ calls = <<>>
    /\ BuilderIdle

\* the rows as stile leaves them for the fill: tx = [mn, mx, oob]
MarkedRows(tx) == [r \in Rows |-> <<tx.mn[r], tx.mx[r]>>]

\* stile(srf) for the surface of the list, whole
Stile ==
    /\ slice[0].st = "run" /\ slice[0].i = 0
    /\ slice' = [slice EXCEPT ![0].i = 1]
    /\ did' = [did EXCEPT ![1][0] = Append(@, 0)]
    /\ scratch' = scratch
    /\ IF ~opts.tiling
       THEN /\ msc_p' = [msc_p EXCEPT ![0] = stile(FALSE, bounds[0], Surface(0))]
            /\ UNCHANGED <<txmin, txmax, oob, bounds, verts, calls>>
       ELSE IF Len(shape.cls) # 0
       THEN \E c \in {Clipped(shape)} :
                \E tx \in TiledFrom({[mn  |-> [r \in Rows |-> tiles_in_row],
                                       mx  |-> [r \in Rows |-> -1],
                                       oob |-> oob]},
                                     c.verts, c.calls, tiling_ext) :
                    /\ verts' = c.verts
                    /\ calls' = c.calls
                    /\ txmin' = tx.mn
                    /\ txmax' = tx.mx
                    /\ oob' = tx.oob
                    /\ bounds' = [bounds EXCEPT ![0] = MarkedRows(tx)]
                    /\ msc_p' = [msc_p EXCEPT ![0] =
                                     stile(TRUE, MarkedRows(tx), Surface(0))]
       ELSE /\ txmin' = [r \in Rows |-> AllBounds[r][1]]
            /\ txmax' = [r \in Rows |-> AllBounds[r][2]]
            /\ bounds' = [bounds EXCEPT ![0] = AllBounds]
            /\ msc_p' = [msc_p EXCEPT ![0] = stile(TRUE, AllBounds, Surface(0))]
            /\ UNCHANGED <<oob, verts, calls>>
    /\ UNCHANGED <<scene, builder, pc, mpool, thpool, slist, llist, lst_p, tiles,
                   evt, rd, tiling_ext, seg, shape>>

NextStile == Stile

SpecStile == InitStile /\ [][NextStile]_vars

(***************************************************************************)
(* Properties of stile (specification SpecStile).                          *)
(***************************************************************************)
\* stile has returned
Stiled == did[1][0] # <<>>

\* the vertices stile made: near copies and clipped vertices
NewVerts == (Len(shape.cls) + 1) .. Len(verts)

\* the vertex falls behind the screen plane, not near it
Behind(k) == shape.cls[k] = "behind"

\* the call of tiling made for edge k: its points are those of the edge,
\* or the edge's clipped vertex in place of one of them
EdgeCalls(k) ==
    {n \in DOMAIN calls :
        \A i \in 1 .. 2 :
            \/ calls[n][i] = shape.edges[k][i]
            \/ /\ calls[n][i] \in NewVerts
               /\ verts[calls[n][i]].org = <<"clip", k>>}

\* edge k is rasterized between the projection of its vertex i and a
\* clipped vertex made for the edge
ClippedCall(k, i) ==
    \E n \in EdgeCalls(k) :
        /\ calls[n][i] = shape.edges[k][i]
        /\ verts[calls[n][i]].org = <<"proj", shape.edges[k][i]>>
        /\ calls[n][3 - i] \in NewVerts
        /\ verts[calls[n][3 - i]].org = <<"clip", k>>

\* no point of a call is a vertex left unprojected
NoRawPoint ==
    \A n \in DOMAIN calls : \A i \in 1 .. 2 : verts[calls[n][i]].org[1] # "raw"

\* edges with both vertices behind or near the plane are skipped
SkippedEdges ==
    \A k \in DOMAIN shape.edges :
        (\A i \in 1 .. 2 : shape.cls[shape.edges[k][i]] # "front") =>
            /\ EdgeCalls(k) = {}
            /\ \A v \in NewVerts : verts[v].org # <<"clip", k>>

\* all pairs of new vertices are rasterized
NewPairCalls ==
    \A i, j \in NewVerts : i < j => \E n \in DOMAIN calls : calls[n] = <<i, j>>

\* C11: with tiling on, the tile list stile leaves for a surface without
\* bounding vertices holds every tile of the tilebuffer exactly once
\* (tiles_in_row * tiles_in_col elements).
C11_NoVertsAllTiles ==
    (Stiled /\ opts.tiling /\ Len(shape.cls) = 0) =>
        /\ msc_p[0].st = "cur"
        /\ Len(msc_p[0].el) = tiles_in_row * tiles_in_col
        /\ \A r \in Rows : \A c \in Cols :
               Cardinality({n \in DOMAIN msc_p[0].el :
                   msc_p[0].el[n].data = TileData(r, c)}) = 1

C11_Witness ==
    /\ Stiled /\ opts.tiling /\ Len(shape.cls) = 0
    /\ Len(msc_p[0].el) = tiles_in_row * tiles_in_col
    /\ msc_p[0].el[1].data = TileData(0, 0)
    /\ msc_p[0].el[Len(msc_p[0].el)].data = TileData(ymax, xmax)

\* C12 as stated: no vertex behind the screen plane is a point of a call
\* of tiling; every edge with exactly one vertex behind the plane is
\* rasterized between the projection of its other vertex and a new clipped
\* vertex; edges with both vertices behind or near the plane are skipped;
\* all pairs of new vertices are rasterized.
C12_ClipEveryEdge ==
    (Stiled /\ opts.tiling) =>
        /\ NoRawPoint
        /\ \A k \in DOMAIN shape.edges : \A i \in 1 .. 2 :
               (~Behind(shape.edges[k][i]) /\ Behind(shape.edges[k][3 - i]))
                   => ClippedCall(k, i)
        /\ SkippedEdges
        /\ NewPairCalls

\* C12 amended: no vertex behind the screen plane is a point of a call of
\* tiling; every edge with one vertex behind the plane and the other in
\* front of it is rasterized between the projection of the vertex in front
\* and a new clipped vertex; edges with both vertices behind or near the
\* plane (one behind and one near among them) are skipped; all pairs of new
\* vertices are rasterized.
C12_NearPlaneClip ==
    (Stiled /\ opts.tiling) =>
        /\ NoRawPoint
        /\ \A k \in DOMAIN shape.edges : \A i \in 1 .. 2 :
               (shape.cls[shape.edges[k][i]] = "front"
                /\ Behind(shape.edges[k][3 - i])) => ClippedCall(k, i)
        /\ SkippedEdges
        /\ NewPairCalls

\* vertex 1 in front, vertex 2 near, vertex 3 behind: the edge from 1 to 3
\* is clipped, the edge from 2 to 3 is skipped, the clipped vertex and the
\* copy of vertex 2 are rasterized as a pair
C12_Witness ==
    /\ Stiled /\ opts.tiling
    /\ shape.cls = <<"front", "near", "behind">>
    /\ shape.edges = <<<<1, 3>>, <<2, 3>>>>
    /\ ClippedCall(1, 1)
    /\ EdgeCalls(2) = {}
    /\ calls = <<<<1, 5>>, <<4, 5>>>>

(***************************************************************************)
(* rt_SceneThread::insert and rt_SceneThread::filter on a list slot.       *)
(*                                                                         *)
(* The elements are heap[a] for the addresses a in 1 .. heap.top, 0 is     *)
(* RT_NULL.  A pointer with a tag in its lower 2 bits is [p, k, s]: p the  *)
(* element, k the tag; s is the node whose s_srf the field holds instead   *)
(* (NullNode while the field is a list pointer).  A slot "ptr" is 0 for    *)
(* the list head the caller passes, a for &a->simd, NoSlot for RT_NULL.    *)
(* The "data" field holds an order value 0 .. 4 until filter, after filter *)
(* 4 * p + k for the pointer p with the tag k.                             *)
(***************************************************************************)
NoSlot == -1

Tagged(p, k) == [p |-> p, k |-> k, s |-> NullNode]
\* nd->s_srf
Ssrf(nd) == [p |-> 0, k |-> 0, s |-> nd]

\* *ptr
Deref(h, ptr) == IF ptr = 0 THEN h.head ELSE h.simd[ptr]

\* a write of a list head that drops the low bits of the slot
LinkBare(h, ptr, a) ==
    IF ptr = 0 THEN [h EXCEPT !.head = Tagged(a, 0)]
    ELSE [h EXCEPT !.simd[ptr] = Tagged(a, 0)]

\* *ptr = (rt_ELEM *)((rt_cell)a | (rt_cell)*ptr & 0x3)
Link(h, ptr, a) ==
    IF ptr = 0 THEN [h EXCEPT !.head.p = a] ELSE [h EXCEPT !.simd[ptr].p = a]

\* alloc(sizeof(rt_ELEM), RT_ALIGN) and the assignments to the new element
Alloc(h, d, sm, t, nx) ==
    [h EXCEPT !.top = @ + 1,
              !.next = Append(@, nx),
              !.data = Append(@, d),
              !.simd = Append(@, sm),
              !.temp = Append(@, t)]

\* the camera, a requester that is no surface
Camera == [tag |-> "CAMERA", id |-> 0]

\* par == x for some parent par of array a, up the hierarchy
RECURSIVE AmongParents(_, _)
AmongParents(x, a) ==
    LET par == nodes.parent[a.id]
    IN  IF par = NullNode THEN FALSE
        ELSE IF par = x THEN TRUE
        ELSE AmongParents(x, par)

\* the bvnode is taken for any requester
ArrAnyRequester(obj, srf) ==
    [i \in 0 .. 1 |->
        IF i = 0 THEN SrfTrnode(trnode, srf) ELSE nodes.bvnode[srf.id]]

\* arr[0], arr[1]: the trnode and the bvnode the surface is grouped by
Arr(obj, srf) ==
    [i \in 0 .. 1 |->
        IF i = 0 THEN SrfTrnode(trnode, srf)
        ELSE IF nodes.bvnode[srf.id] # NullNode /\ RT_IS_SURFACE(obj)
             THEN nodes.bvnode[srf.id] ELSE NullNode]

\* n, the number of nodes of the surface
NodesNum(arr) ==
    (IF arr[0] # NullNode THEN 1 ELSE 0) + (IF arr[1] # NullNode THEN 1 ELSE 0)

\* one array in both roles is taken as trnode first
OuterMostTrnode(arr) ==
    IF NodesNum(arr) = 2
    THEN IF arr[0] = arr[1] THEN 0
         ELSE IF AmongParents(arr[0], arr[1]) THEN 0
         ELSE IF AmongParents(arr[1], arr[0]) THEN 1
         ELSE -1
    ELSE IF arr[0] # NullNode THEN 0
    ELSE IF arr[1] # NullNode THEN 1
    ELSE -1

\* nodes that are not among each other's parents are taken in the order
\* trnode, bvnode
OuterMostAnyBranch(arr) ==
    IF NodesNum(arr) = 2
    THEN IF arr[0] = arr[1] THEN 1
         ELSE IF AmongParents(arr[1], arr[0]) THEN 1 ELSE 0
    ELSE IF arr[0] # NullNode THEN 0
    ELSE IF arr[1] # NullNode THEN 1
    ELSE -1

\* k, the index of the outer-most node, -1 if there is none; with two nodes
\* that are not among each other's parents it stays -1 and insert throws
OuterMost(arr) ==
    IF NodesNum(arr) = 2
    THEN IF arr[0] = arr[1] THEN 1
         ELSE IF AmongParents(arr[0], arr[1]) THEN 0
         ELSE IF AmongParents(arr[1], arr[0]) THEN 1
         ELSE -1
    ELSE IF arr[0] # NullNode THEN 0
    ELSE IF arr[1] # NullNode THEN 1
    ELSE -1

\* search matching existing trnode/bvnode for insertion:
\* s = [ptr, nxt, k, i]; n is the number of nodes
RECURSIVE Search(_, _, _, _)
Search(h, arr, n, s) ==
    IF s.nxt = 0 \/ s.i >= n THEN s
    ELSE IF arr[s.k] = h.temp[s.nxt] /\ h.simd[s.nxt].k = s.k
         THEN \* the sublist's head becomes nxt, then the loop's "nxt =
              \* nxt->next" is applied to it
              Search(h, arr, n,
                     [ptr |-> s.nxt, nxt |-> h.next[h.simd[s.nxt].p],
                      k |-> 1 - s.k, i |-> s.i + 1])
         ELSE Search(h, arr, n, [s EXCEPT !.nxt = h.next[s.nxt]])

\* allocate new node elements from outer-most to inner-most:
\* s = [h, ptr, k, i, org]
RECURSIVE NewNodes(_, _, _)
NewNodes(arr, n, s) ==
    IF s.i >= n THEN s
    ELSE LET h1  == Alloc(s.h, 0, Tagged(0, s.k), arr[s.k], Deref(s.h, s.ptr).p)
             nxt == h1.top
         IN  NewNodes(arr, n,
                 [h   |-> Link(h1, s.ptr, nxt),
                  ptr |-> nxt,
                  k   |-> 1 - s.k,
                  i   |-> s.i + 1,
                  org |-> IF s.org = NoSlot THEN s.ptr ELSE s.org])

(***************************************************************************)
(* insert, the sorting of the list "ptr" with the new element "elm".       *)
(* The locals of the three phases are the fields of s: h (the heap), ptr,  *)
(* elm, prv, state, nxt, end, tlp; fault is set when a step reads through  *)
(* RT_NULL, the phases stop there.                                         *)
(***************************************************************************)
\* bbox_sort(obj, a->temp, b->temp): 1 don't swap, 2 do swap, 3 neutral,
\* 4 unsortable
Order(h, a, b) == bbox_sort[<<h.temp[a], h.temp[b]>>]

\* order values "don't swap" and "unsortable" are considered strict
Strict(op) == op = 1 \/ op = 4

\* cur = x->next; x->data = bbox_sort(obj, x->temp, cur->temp)
Repair(s, x) ==
    IF s.h.next[x] = 0 THEN [s EXCEPT !.fault = TRUE]
    ELSE [s EXCEPT !.h.data[x] = Order(s.h, x, s.h.next[x])]

\* x->data is repaired when it has been reset
RepairReset(s, x) == IF s.h.data[x] = 0 THEN Repair(s, x) ELSE s

\* the list head is set whether there is a prv or not
RelinkHead(s, cur) == [s EXCEPT !.h = Link(s.h, s.ptr, cur)]

\* prv->data = state or the recomputed value, prv->next = cur;
\* the list head is set when there is no prv
Relink(s, cur) ==
    IF s.prv # 0
    THEN LET op == IF s.state # 0 THEN s.state ELSE Order(s.h, s.prv, cur)
         IN  [s EXCEPT !.h.data[s.prv] = op, !.h.next[s.prv] = cur]
    ELSE [s EXCEPT !.h = Link(s.h, s.ptr, cur)]

\* "elm" is moved past "nxt" whatever the order value is
MovesPastAny(op) == op \in 1 .. 4

\* "elm" is moved past "nxt" only when the order value is "do swap"
MovesPastSwap(op) == op = 2

\* "elm" is moved past "nxt" when the order value is "do swap" or "neutral"
MovesPast(op) == op = 2 \/ op = 3

\* "elm" is left at the head whatever the order value is
Phase1Stay(s) ==
    IF s.nxt = 0 THEN s
    ELSE [s EXCEPT !.h.data[s.elm] = IF Order(s.h, s.elm, s.nxt) = 2 THEN 1
                                     ELSE Order(s.h, s.elm, s.nxt),
                   !.state = 0, !.nxt = 0]

\* phase 1, one pass of the loop: "elm" moves past "nxt" or stops
Phase1Step(s) ==
    LET op == Order(s.h, s.elm, s.nxt)
    IN  IF MovesPast(op)
        THEN LET s1 == [s EXCEPT !.h.next[s.elm] = s.h.next[s.nxt]]
                 s2 == Relink(s1, s.nxt)
                 st == s2.h.data[s.nxt]
                 s3 == [s2 EXCEPT !.h.data[s.nxt] = IF op = 2 THEN 1 ELSE 3,
                                  !.h.next[s.nxt] = s.elm]
             IN  [s3 EXCEPT !.state = st,
                            !.prv = s.nxt,
                            !.nxt = s3.h.next[s.elm]]
        ELSE [s EXCEPT !.h.data[s.elm] = op, !.state = 0, !.nxt = 0]

\* phase 1, push "elm" through the list "ptr" for as long as possible
RECURSIVE Phase1(_)
Phase1(s) == IF s.nxt = 0 THEN s ELSE Phase1(Phase1Step(s))

\* phase 2, find the "end" of the strict-order-chain from "elm"; 0 when
\* the chain runs through the last element
RECURSIVE ChainEnd(_, _)
ChainEnd(h, end) ==
    IF end = 0 THEN 0
    ELSE IF Strict(h.data[end]) THEN ChainEnd(h, h.next[end])
    ELSE end

\* for (ipt = end; ipt->next != cur; ipt = ipt->next); 0 when cur is not
\* met
RECURSIVE PrevOf(_, _, _)
PrevOf(h, ipt, cur) ==
    IF ipt = 0 THEN 0
    ELSE IF h.next[ipt] = cur THEN ipt
    ELSE PrevOf(h, h.next[ipt], cur)

\* run through the strict-order-chain from "tlp->next" up to "nxt" and
\* compute new order values for the tail element "cur":
\* w = [h, cur, tlp, nxt, state, mv, ...], state the local one
RECURSIVE CombChain(_, _)
CombChain(w, jpt) ==
    IF jpt = w.nxt THEN w
    ELSE LET jel == w.h.next[jpt]
             op  == IF w.h.next[w.cur] = jel /\ w.h.data[w.cur] # 0
                    THEN w.h.data[w.cur]
                    ELSE IF w.h.next[w.tlp] = jel /\ w.state # 0
                    THEN w.state
                    ELSE Order(w.h, w.cur, jel)
             w1  == IF w.h.next[w.cur] = jel
                    THEN [w EXCEPT !.h.data[w.cur] = op]
                    ELSE IF w.h.next[w.tlp] = jel
                    THEN [w EXCEPT !.state = op]
                    ELSE w
         IN  IF jel = 0 THEN [w EXCEPT !.fault = TRUE]
             ELSE IF Strict(op) THEN [w1 EXCEPT !.mv = TRUE]
             ELSE CombChain(w1, jel)

\* "ipt" keeps the order value it had to "iel"
JoinCombKeep(w, ipt, iel) ==
    LET cur == w.h.next[w.tlp]
        w1  == [w EXCEPT !.h.data[iel] = w.state]
        st  == w1.h.data[ipt]
        w3  == [w1 EXCEPT !.h.next[ipt] = w1.h.next[iel]]
        w4  == [w3 EXCEPT !.h.next[iel] = cur]
        w5  == [w4 EXCEPT !.h.data[w.tlp] = 0]
        w6  == [w5 EXCEPT !.h.next[w.tlp] = iel]
    IN  [w6 EXCEPT !.state = st]

\* move "cur" from the middle of the tail to the front of the comb
JoinComb(w, ipt, iel) ==
    LET cur == w.h.next[w.tlp]
        w1  == [w EXCEPT !.h.data[iel] = w.state]
        st  == w1.h.data[ipt]
        w2  == [w1 EXCEPT !.h.data[ipt] = 0]
        w3  == [w2 EXCEPT !.h.next[ipt] = w2.h.next[iel]]
        w4  == [w3 EXCEPT !.h.next[iel] = cur]
        w5  == [w4 EXCEPT !.h.data[w.tlp] = 0]
        w6  == [w5 EXCEPT !.h.next[w.tlp] = iel]
    IN  [w6 EXCEPT !.state = st]

\* the tail element "cur" (iel, behind ipt) after its run through the
\* comb c: it joins the comb when its order to a comb element is strict,
\* otherwise it stays in the tail; "cur" moves to its prev
CombJoin(c, ipt, iel) ==
    IF c.fault THEN c
    ELSE IF c.mv
    THEN IF c.cur = c.tlp
         THEN [c EXCEPT !.gr = TRUE, !.tlp = ipt, !.cur = ipt, !.ipt = ipt]
         ELSE [JoinComb(c, ipt, iel) EXCEPT !.gr = TRUE, !.cur = ipt,
                                            !.ipt = ipt]
    ELSE [RepairReset(c, iel) EXCEPT !.state = 0, !.cur = ipt, !.ipt = ipt]

\* one tail element: ipt is the element before "cur"
CombStep(w, ipt) ==
    IF ipt = 0 THEN [w EXCEPT !.fault = TRUE]
    ELSE CombJoin(CombChain([w EXCEPT !.mv = FALSE], w.tlp), ipt, w.cur)

\* run through the tail area from "end->next" up to "tlp" backwards,
\* while combing out elements to move along with "nxt":
\* w = [h, end, tlp, nxt, cur, state, mv, gr, ipt, fault]
RECURSIVE CombTail(_)
CombTail(w) ==
    IF w.fault \/ w.cur = w.end THEN w
    ELSE CombTail(CombStep(w, PrevOf(w.h, w.end, w.cur)))

\* repair "end" stored order value (to the rest of the tail), "ipt" serves
\* as "end"
CombEnd(w) == IF w.fault THEN w ELSE RepairReset(w, w.ipt)

\* the locals of the comb before its first tail element: cur = tlp
CombStart(s) ==
    [h |-> s.h, end |-> s.end, tlp |-> s.tlp, nxt |-> s.nxt, cur |-> s.tlp,
     state |-> 0, mv |-> FALSE, gr |-> FALSE, ipt |-> 0, fault |-> FALSE]

\* the comb: check if there is a tail from "end->next" up to "tlp" to comb
\* out before moving "nxt"; gives the heap, tlp and whether the comb has
\* grown
Comb(s) ==
    IF s.tlp = s.end
    THEN [h |-> s.h, tlp |-> s.tlp, gr |-> FALSE, fault |-> FALSE]
    ELSE CombEnd(CombTail(CombStart(s)))

\* the order value is stored in "tlp" as well
MoveNxtBoth(s1, nxt) ==
    LET cur == s1.h.next[nxt]
        s3  == [s1 EXCEPT !.h.data[s1.tlp] = 1, !.h.next[s1.tlp] = cur]
    IN  [s3 EXCEPT !.state = s3.h.data[nxt], !.h.data[nxt] = 1,
                   !.h.next[nxt] = s1.elm, !.prv = nxt, !.nxt = cur]

\* cur = nxt->next; tlp->data = 0; tlp->next = cur; state = nxt->data;
\* nxt->data = op; nxt->next = elm; prv = nxt; nxt = cur
MoveNxt(s1, nxt) ==
    LET cur == s1.h.next[nxt]
        s3  == [s1 EXCEPT !.h.data[s1.tlp] = 0, !.h.next[s1.tlp] = cur]
    IN  [s3 EXCEPT !.state = s3.h.data[nxt], !.h.data[nxt] = 1,
                   !.h.next[nxt] = s1.elm, !.prv = nxt, !.nxt = cur]

\* the comb c is linked behind "prv" (or at the list head), then "nxt"
\* is moved; "state" is reset if the comb has grown
MoveWith(s, c) ==
    IF c.fault THEN [s EXCEPT !.h = c.h, !.fault = TRUE]
    ELSE MoveNxt(Relink([s EXCEPT !.h = c.h, !.tlp = c.tlp,
                                  !.state = IF c.gr THEN 0 ELSE s.state],
                        c.h.next[c.tlp]),
                 s.nxt)

\* move "nxt" along with its comb (if any) from "tlp->next" to the front of
\* the "elm"
MoveComb(s) == MoveWith(s, Comb(s))

\* "nxt" stays where it is
ForwardStay(s) == s

\* "nxt" moves forward: "tlp" catches up with it when its stored order
\* value is not strict
Forward(s) ==
    IF ~Strict(s.h.data[s.nxt])
    THEN [RepairReset(s, s.tlp) EXCEPT
             !.state = 0, !.tlp = s.nxt, !.nxt = s.h.next[s.nxt]]
    ELSE [s EXCEPT !.nxt = s.h.next[s.nxt]]

\* phase 3, one pass of the loop
Phase3Step(s) ==
    IF Order(s.h, s.elm, s.nxt) = 2 THEN MoveComb(s) ELSE Forward(s)

\* phase 3, move the elements from behind "elm" strict-order-chain right in
\* front of the "elm" as computed order value dictates
RECURSIVE Phase3(_)
Phase3(s) == IF s.fault \/ s.nxt = 0 THEN s ELSE Phase3(Phase3Step(s))

\* repair "tlp" stored order value if there are elements left behind it
LastRepair(s) ==
    IF s.fault THEN s
    ELSE IF s.h.data[s.tlp] = 0 /\ s.h.next[s.tlp] # 0 THEN Repair(s, s.tlp)
    ELSE s

\* phases 2 and 3 and the last repair, from the "end" of the
\* strict-order-chain
SortedFrom(s1, end) ==
    IF end = 0 THEN [s1 EXCEPT !.fault = TRUE]
    ELSE LastRepair(Phase3([s1 EXCEPT !.end = end, !.tlp = end,
                                      !.nxt = s1.h.next[end]]))

\* phase 2 on, after phase 1
SortedBehind(s1) == SortedFrom(s1, ChainEnd(s1.h, s1.elm))

\* the locals of insert when the new element has been linked
Locals(h, ptr, elm) ==
    [h |-> h, ptr |-> ptr, elm |-> elm, prv |-> 0, state |-> 0,
     nxt |-> h.next[elm], end |-> 0, tlp |-> 0, fault |-> FALSE]

\* sort nodes in the list "ptr" with the new element "elm"
Sorted(h, ptr, elm) == SortedBehind(Phase1(Locals(h, ptr, elm)))

\* the result of insert for the sorted list s
Returned(s, el) == [h |-> s.h, ret |-> el, fault |-> s.fault, err |-> ""]

\* the element is linked at the insertion point g.ptr, then the list
\* "org" (or "ptr") is sorted with the outer-most new element
LinkElm(g, elm) ==
    LET h2 == Link([g.h EXCEPT !.next[elm] = Deref(g.h, g.ptr).p], g.ptr, elm)
        pt == IF g.org # NoSlot THEN g.org ELSE g.ptr
        el == IF g.org # NoSlot THEN Deref(h2, g.org).p ELSE elm
    IN  IF ~nodes.sort
        THEN [h |-> h2, ret |-> el, fault |-> FALSE, err |-> ""]
        ELSE Returned(Sorted(h2, pt, el), el)

\* the node elements are allocated from the place f the search has come to
InsertFound(h0, arr, n, f) ==
    LinkElm(NewNodes(arr, n, [h |-> h0, ptr |-> f.ptr, k |-> f.k, i |-> f.i,
                              org |-> NoSlot]), h0.top)

\* insert that looks at the branch only when the surface element is linked
InsertBranchLate(h0, ptr, arr, n, k) ==
    IF n = 2 /\ k = -1
    THEN [h |-> Link([h0 EXCEPT !.next[h0.top] = Deref(h0, ptr).p], ptr, h0.top),
          ret |-> 0, fault |-> FALSE,
          err |-> "trnode/bvnode are not on the same branch"]
    ELSE InsertFound(h0, arr, n,
               IF n = 0 THEN [ptr |-> ptr, nxt |-> 0, k |-> k, i |-> 0]
               ELSE Search(h0, arr, n, [ptr |-> ptr, nxt |-> Deref(h0, ptr).p,
                                        k |-> k, i |-> 0]))

\* insert from the search on, for the nodes arr of the surface, n of them,
\* the outer-most at index k
InsertBranch(h0, ptr, arr, n, k) ==
    IF n = 2 /\ k = -1
    THEN [h |-> h0, ret |-> 0, fault |-> FALSE,
          err |-> "trnode/bvnode are not on the same branch"]
    ELSE InsertFound(h0, arr, n,
               IF n = 0 THEN [ptr |-> ptr, nxt |-> 0, k |-> k, i |-> 0]
               ELSE Search(h0, arr, n, [ptr |-> ptr, nxt |-> Deref(h0, ptr).p,
                                        k |-> k, i |-> 0]))

\* insert for the nodes arr of the surface
InsertNodes(h0, ptr, arr) ==
    InsertBranch(h0, ptr, arr, NodesNum(arr), OuterMost(arr))

\* insert(obj, ptr, srf) for a surface srf: the heap it leaves, the element
\* it returns, the exception it throws, whether it read through RT_NULL
insert(h, obj, ptr, srf) ==
    InsertNodes(Alloc(h, 0, Tagged(0, 0), srf, 0), ptr, Arr(obj, srf))

(***************************************************************************)
(* filter(obj, ptr): r = [h, elm, nxt, bad].  bad is set when the walk     *)
(* takes a field that holds s_srf for a sublist, or writes through the     *)
(* RT_NULL a sublist without leaf returned: the walk stops there, what     *)
(* follows is not defined.                                                 *)
(***************************************************************************)
\* the last leaf of the sublist keeps "next" as it is
SpliceNoTail(h, nxt, elm) ==
    LET h2 == [h EXCEPT !.data[nxt] = 4 * elm + h.simd[nxt].k]
        h3 == [h2 EXCEPT !.next[nxt] = h2.simd[nxt].p]
    IN  [h3 EXCEPT !.simd[nxt] = Ssrf(h3.temp[nxt])]

\* nxt->data is given the first element of the sublist
SpliceHead(h, nxt, elm) ==
    LET h1 == [h EXCEPT !.next[elm] = h.next[nxt]]
        h2 == [h1 EXCEPT !.data[nxt] = 4 * h1.simd[nxt].p + h1.simd[nxt].k]
        h3 == [h2 EXCEPT !.next[nxt] = h2.simd[nxt].p]
    IN  [h3 EXCEPT !.simd[nxt] = Ssrf(h3.temp[nxt])]

\* elm->next = nxt->next; nxt->data = elm | type; nxt->next = sublist;
\* nxt->simd = s_srf
Splice(h, nxt, elm) ==
    LET h1 == [h EXCEPT !.next[elm] = h.next[nxt]]
        h2 == [h1 EXCEPT !.data[nxt] = 4 * elm + h1.simd[nxt].k]
        h3 == [h2 EXCEPT !.next[nxt] = h2.simd[nxt].p]
    IN  [h3 EXCEPT !.simd[nxt] = Ssrf(h3.temp[nxt])]

RECURSIVE filter(_, _)
RECURSIVE FilterFrom(_)

\* for (; nxt != RT_NULL; nxt = nxt->next)
FilterFrom(r) ==
    IF r.bad \/ r.nxt = 0 THEN r
    ELSE LET nxt == r.nxt
             nd  == r.h.temp[nxt]
         IN  IF RT_IS_SURFACE(nd)
             THEN LET h1 == [r.h EXCEPT !.data[nxt] = 0, !.simd[nxt] = Ssrf(nd)]
                  IN  FilterFrom([r EXCEPT !.h = h1, !.elm = nxt,
                                           !.nxt = h1.next[nxt]])
             ELSE IF RT_IS_ARRAY(nd)
             THEN IF r.h.simd[nxt].s # NullNode
                  THEN [r EXCEPT !.bad = TRUE]
                  ELSE LET sub == filter(r.h, nxt)
                           elm == sub.elm
                           h4  == Splice(sub.h, nxt, elm)
                       IN  IF sub.bad \/ elm = 0
                           THEN [r EXCEPT !.h = sub.h, !.bad = TRUE]
                           ELSE FilterFrom([r EXCEPT !.h = h4, !.elm = elm,
                                                    !.nxt = h4.next[elm]])
             ELSE FilterFrom([r EXCEPT !.nxt = r.h.next[nxt]])

\* the first element of the list is returned
filterFirst(h, ptr) ==
    IF ptr = NoSlot THEN [h |-> h, elm |-> 0, nxt |-> 0, bad |-> FALSE]
    ELSE [FilterFrom([h |-> h, elm |-> 0, nxt |-> Deref(h, ptr).p,
                      bad |-> FALSE]) EXCEPT !.elm = Deref(h, ptr).p]

filter(h, ptr) ==
    IF ptr = NoSlot THEN [h |-> h, elm |-> 0, nxt |-> 0, bad |-> FALSE]
    ELSE FilterFrom([h |-> h, elm |-> 0, nxt |-> Deref(h, ptr).p,
                     bad |-> FALSE])

(***************************************************************************)
(* The calls of ssort on one list slot: insert for the surfaces of the     *)
(* srf_head list in turn, then filter.                                     *)
(***************************************************************************)
\* the nodes bbox_sort is asked about: the surfaces and the two arrays
SortNodes(n) == {Surface(i) : i \in 0 .. (n - 1)} \cup {Array(1), Array(2)}

\* the order values of a scene without arrays: any values that agree under
\* the exchange of the two nodes ("don't swap" one way is "do swap" the
\* other way, "neutral" and "unsortable" are so both ways)
Exchanged(op) == IF op = 1 THEN 2 ELSE IF op = 2 THEN 1 ELSE op

\* the pairs of surfaces an order value is chosen for
Pairs(n) == {pr \in (0 .. (n - 1)) \X (0 .. (n - 1)) : pr[1] < pr[2]}

FreeOrder(n, g) ==
    [e \in SortNodes(n) \X SortNodes(n) |->
        IF RT_IS_ARRAY(e[1]) \/ RT_IS_ARRAY(e[2]) \/ e[1] = e[2] THEN 3
        ELSE IF e[1].id < e[2].id THEN g[<<e[1].id, e[2].id>>]
        ELSE Exchanged(g[<<e[2].id, e[1].id>>])]

\* the place of a node along the view, in the orders below
Rank(nd) == IF RT_IS_ARRAY(nd) THEN 2 * nd.id - 1 ELSE nd.id

\* the order values of a scene with arrays: all neutral (1), all
\* unsortable (2), or nodes with a lower rank first and nodes of one rank
\* neutral (3)
RankOrder(n, t) ==
    [e \in SortNodes(n) \X SortNodes(n) |->
        IF t = 1 THEN 3
        ELSE IF t = 2 THEN 4
        ELSE IF Rank(e[1]) < Rank(e[2]) THEN 1
        ELSE IF Rank(e[1]) > Rank(e[2]) THEN 2 ELSE 3]

\* what a surface i can have for <<trnode, bvnode>>
NodeKinds(i) ==
    <<<<NullNode, NullNode>>, <<Surface(i), NullNode>>,
      <<Array(1), NullNode>>, <<Array(1), Array(2)>>,
      <<Array(1), Array(1)>>, <<NullNode, Array(2)>>, <<Array(2), Array(1)>>,
      <<Surface(i), Array(2)>>>>

\* a scene without arrays, seen from the camera, sorted, with the order
\* values g
FlatScene(n, g) ==
    /\ trnode = [i \in 0 .. (n - 1) |-> NullNode]
    /\ nodes = [obj |-> Camera, sort |-> TRUE,
                bvnode |-> [i \in 0 .. (n - 1) |-> NullNode],
                parent |-> [k \in 1 .. 2 |-> NullNode]]
    /\ bbox_sort = FreeOrder(n, g)

\* a scene with arrays, array 1 at the top or under array 2 (tp), seen from
\* the camera, a light or surface 0 (o), sorted or not (st), with the kinds kd
\* and the order values t; some surface is under an array, and the
\* repetitions that make no difference are left out (order values when
\* nothing is sorted, the kinds above 4 seen from a camera or a light)
GroupScene(n, o, st, kd, tp, t) ==
    /\ \E i \in 0 .. (n - 1) : kd[i] > 2
    /\ ~st => t = 1
    /\ ~RT_IS_SURFACE(o) => \A i \in 0 .. (n - 1) : kd[i] <= 4
    /\ trnode = [i \in 0 .. (n - 1) |-> NodeKinds(i)[kd[i]][1]]
    /\ nodes = [obj |-> o, sort |-> st,
                bvnode |-> [i \in 0 .. (n - 1) |-> NodeKinds(i)[kd[i]][2]],
                parent |-> [k \in 1 .. 2 |-> IF k = 1 THEN tp ELSE NullNode]]
    /\ bbox_sort = RankOrder(n, t)

\* update_slice(0, 2) is running and calls ssort(obj), which has set the
\* list slot to RT_NULL
ListIdle ==
    /\ thnum = 1
    /\ lgt_num = 0
    /\ opts = [thread |-> FALSE, tiling |-> FALSE]
    /\ pc = "wait2"
    /\ mpool = TRUE
    /\ thpool = [w \in Thrds |-> TRUE]
    /\ slice = [w \in Thrds |-> [ph |-> 2, i |-> 0, st |-> "run"]]
    /\ bounds = [i \in Srfs |-> ResetBounds]
    /\ slist = StaleList
    /\ llist = [st |-> "stale", el |-> <<>>, shw |-> "stale"]
    /\ msc_p = [i \in Srfs |-> NullList]
    /\ lst_p = [i \in Srfs |-> [s |-> "stale", l |-> "stale"]]
    /\ tiles = [st |-> "stale", el |-> [t \in TileIdx |-> <<>>]]
    /\ did = [p \in 1 .. 2 |-> [i \in Srfs |-> IF p = 1 THEN <<0>> ELSE <<>>]]
    /\ scratch = [w \in Thrds |-> -1]
    /\ evt = [NoEvt EXCEPT !.done = {"hier"}]
    /\ rd = {}
    /\ RasterIdle
    /\ ClipperIdle
    /\ heap = NoHeap
    /\ log = NoLog
    /\ reqs = {}
    /\ loc = NoLoc

\* the scenes of up to MaxSrf surfaces, without arrays under every table
\* of order values and with arrays
InitList ==
    /\ SceneLive
    /\ srf_num \in 0 .. MaxSrf
    /\ ListIdle
    /\ \/ \E g \in [Pairs(srf_num) -> 1 .. 4] : FlatScene(srf_num, g)
       \/ \E o \in {Camera, Light(0), Surface(0)}, st \in BOOLEAN,
             kd \in [0 .. (srf_num - 1) -> 1 .. 8],
             tp \in {NullNode, Array(2)}, t \in 1 .. 3 :
               GroupScene(srf_num, o, st, kd, tp, t)

\* the scenes without arrays of up to MaxList surfaces: every table of
\* order values up to MaxSrf surfaces, the tables without "unsortable"
\* above
InitComb ==
    /\ SceneLive
    /\ srf_num \in 0 .. MaxList
    /\ ListIdle
    /\ \E g \in [Pairs(srf_num) -> 1 .. (IF srf_num <= MaxSrf THEN 4 ELSE 3)] :
           FlatScene(srf_num, g)

frame == <<scene, raster, clipper, pc, mpool, thpool, slice, bounds, slist,
           llist, msc_p, lst_p, tiles, did, scratch, evt, rd>>

\* insert(obj, ptr, ref) for the next surface of the srf_head list
Insert ==
    /\ log.err = "" /\ log.filtered = 0
    /\ Len(log.arrived) < srf_num
    /\ \E r \in {insert(heap, nodes.obj, 0, Surface(Len(log.arrived)))} :
           /\ heap' = r.h
           /\ log' = [log EXCEPT !.arrived = Append(@, Len(log.arrived)),
                                 !.ret = r.ret,
                                 !.err = IF r.fault THEN "fault" ELSE r.err,
                                 !.before = heap,
                                 !.slot = 0]
    /\ UNCHANGED <<frame, nodes, bbox_sort, reqs, loc>>

\* what is left when filter took s_srf for a sublist at element a: the
\* list is cut behind a
Torn(h, a) == [h EXCEPT !.next[a] = 0, !.data[a] = 0]

\* filter(obj, ptr) for the list slot, or for no slot; ssort calls it after
\* the inserts when RT_OPTS_INSERT is on, the option insert sorts under
Filter(ptr) ==
    /\ nodes.sort
    /\ Len(log.arrived) = srf_num
    /\ log.err = "" /\ log.filtered < 2
    /\ ptr = NoSlot => log.slot # NoSlot
    /\ \E r \in {filter(heap, ptr)} :
         IF r.bad
         THEN \/ /\ heap' = r.h
                 /\ log' = [log EXCEPT !.ret = 0, !.err = "fault",
                                       !.filtered = @ + 1,
                                       !.before = heap, !.slot = ptr]
              \/ /\ heap' = Torn(r.h, r.nxt)
                 /\ log' = [log EXCEPT !.ret = r.nxt, !.filtered = @ + 1,
                                       !.before = heap, !.slot = ptr]
         ELSE /\ heap' = r.h
              /\ log' = [log EXCEPT !.ret = r.elm,
                                    !.filtered = IF ptr = 0 THEN @ + 1 ELSE @,
                                    !.before = heap, !.slot = ptr]
    /\ UNCHANGED <<frame, nodes, bbox_sort, reqs, loc>>

\* the order values of any comparison, the two directions of a pair chosen
\* apart
OrdPairs(n) == {pr \in (0 .. (n - 1)) \X (0 .. (n - 1)) : pr[1] # pr[2]}

AnyOrder(n, g) ==
    [e \in SortNodes(n) \X SortNodes(n) |->
        IF RT_IS_ARRAY(e[1]) \/ RT_IS_ARRAY(e[2]) \/ e[1] = e[2] THEN 3
        ELSE g[<<e[1].id, e[2].id>>]]

\* the scenes without arrays of up to MaxSort surfaces: any comparison up
\* to MaxSrf surfaces, those that agree under exchange above
InitSort ==
    /\ SceneLive
    /\ srf_num \in 0 .. MaxSort
    /\ ListIdle
    /\ trnode = [i \in Srfs |-> NullNode]
    /\ nodes = [obj |-> Camera, sort |-> TRUE,
                bvnode |-> [i \in Srfs |-> NullNode],
                parent |-> [k \in 1 .. 2 |-> NullNode]]
    /\ IF srf_num <= MaxSrf
       THEN \E g \in [OrdPairs(srf_num) -> 1 .. 4] :
                bbox_sort = AnyOrder(srf_num, g)
       ELSE \E g \in [Pairs(srf_num) -> 1 .. 4] :
                bbox_sort = FreeOrder(srf_num, g)

\* insert(obj, ptr, ref) is called for the next surface: the element is
\* allocated and linked at the head of the list
SortCall ==
    /\ loc.pc = "idle" /\ log.err = ""
    /\ Len(log.arrived) < srf_num
    /\ LET h0  == Alloc(heap, 0, Tagged(0, 0), Surface(Len(log.arrived)), 0)
           elm == h0.top
           h2  == Link([h0 EXCEPT !.next[elm] = Deref(h0, 0).p], 0, elm)
       IN  loc' = [pc |-> "phase1", s |-> Locals(h2, 0, elm), w |-> <<>>]
    /\ UNCHANGED <<frame, nodes, bbox_sort, heap, log, reqs>>

\* one pass of the loop of phase 1, or its end: end = elm
SortPhase1 ==
    /\ loc.pc = "phase1"
    /\ loc' = IF loc.s.nxt = 0
              THEN [loc EXCEPT !.pc = "phase2", !.s.end = loc.s.elm]
              ELSE [loc EXCEPT !.s = Phase1Step(loc.s)]
    /\ UNCHANGED <<frame, nodes, bbox_sort, heap, log, reqs>>

\* one pass of the loop of phase 2 (end = end->next), or its end:
\* tlp = end, nxt = end->next
SortPhase2 ==
    /\ loc.pc = "phase2"
    /\ LET s == loc.s
       IN  loc' = IF Strict(s.h.data[s.end])
                  THEN IF s.h.next[s.end] = 0
                       THEN [loc EXCEPT !.pc = "return", !.s.fault = TRUE]
                       ELSE [loc EXCEPT !.s.end = s.h.next[s.end]]
                  ELSE [loc EXCEPT !.pc = "phase3", !.s.tlp = s.end,
                                   !.s.nxt = s.h.next[s.end]]
    /\ UNCHANGED <<frame, nodes, bbox_sort, heap, log, reqs>>

\* one pass of the loop of phase 3 up to the loop over the tail, when
\* there is a tail to comb; or its end with the last repair
SortPhase3 ==
    /\ loc.pc = "phase3"
    /\ LET s == loc.s
       IN  loc' = IF s.fault THEN [loc EXCEPT !.pc = "return"]
                  ELSE IF s.nxt = 0
                  THEN [loc EXCEPT !.pc = "return", !.s = LastRepair(s)]
                  ELSE IF Order(s.h, s.elm, s.nxt) = 2 /\ s.tlp # s.end
                  THEN [loc EXCEPT !.pc = "comb", !.w = CombStart(s)]
                  ELSE [loc EXCEPT !.s = Phase3Step(s)]
    /\ UNCHANGED <<frame, nodes, bbox_sort, heap, log, reqs>>

\* one tail element of the comb, or its end: the comb and "nxt" are moved
\* and phase 3 goes on
SortComb ==
    /\ loc.pc = "comb"
    /\ LET w == loc.w
       IN  loc' = IF w.fault \/ w.cur = w.end
                  THEN [loc EXCEPT !.pc = "phase3", !.w = <<>>,
                                   !.s = MoveWith(loc.s, CombEnd(w))]
                  ELSE [loc EXCEPT !.w = CombStep(w, PrevOf(w.h, w.end, w.cur))]
    /\ UNCHANGED <<frame, nodes, bbox_sort, heap, log, reqs>>

\* return elm
SortReturn ==
    /\ loc.pc = "return"
    /\ loc' = NoLoc
    /\ heap' = loc.s.h
    /\ log' = [log EXCEPT !.arrived = Append(@, Len(log.arrived)),
                          !.ret = loc.s.elm,
                          !.err = IF loc.s.fault THEN "fault" ELSE "",
                          !.before = heap,
                          !.slot = 0]
    /\ UNCHANGED <<frame, nodes, bbox_sort, reqs>>

NextSort ==
    \/ SortCall
    \/ SortPhase1
    \/ SortPhase2
    \/ SortPhase3
    \/ SortComb
    \/ SortReturn

SpecSort == InitSort /\ [][NextSort]_vars

\* the thread that has called insert keeps running it
SpecSortFair == SpecSort /\ WF_vars(NextSort)

NextComb == Insert

SpecComb == InitComb /\ [][NextComb]_vars

NextList ==
    \/ Insert
    \/ Filter(0)
    \/ Filter(NoSlot)

SpecList == InitList /\ [][NextList]_vars

(***************************************************************************)
(* Properties of insert and filter (specification SpecList).               *)
(***************************************************************************)
\* the elements from a on, along "next"
RECURSIVE Chain(_, _)
Chain(h, a) == IF a = 0 THEN <<>> ELSE <<a>> \o Chain(h, h.next[a])

\* the node elements whose "simd" field holds a sublist
GroupElems(h) ==
    {a \in 1 .. h.top : RT_IS_ARRAY(h.temp[a]) /\ h.simd[a].s = NullNode}

\* the list levels: the list of the slot and the sublist of every node
\* element
Levels(h) ==
    {Chain(h, h.head.p)} \cup {Chain(h, h.simd[a].p) : a \in GroupElems(h)}

\* the list is being built: inserts only, none has thrown
Building == log.arrived # <<>> /\ log.filtered = 0 /\ log.err = ""

\* C13: while a list is built, no list level holds two node elements for
\* the same array with the same type (trnode/bvnode): insert takes the
\* node element that is there and allocates one only when there is none.
C13_GroupsFoundOrCreated ==
    Building =>
        \A lv \in Levels(heap) : \A x, y \in DOMAIN lv :
            (x # y /\ lv[x] \in GroupElems(heap) /\ lv[y] \in GroupElems(heap))
            => \/ heap.temp[lv[x]] # heap.temp[lv[y]]
               \/ heap.simd[lv[x]].k # heap.simd[lv[y]].k

\* the elements linked into the list of the slot, at any level
Linked(h) == UNION {{lv[x] : x \in DOMAIN lv} : lv \in Levels(h)}

\* surface i has a trnode array and a bvnode array, different ones, neither
\* among the parents of the other
OffBranch(i) ==
    /\ RT_IS_ARRAY(trnode[i]) /\ RT_IS_ARRAY(nodes.bvnode[i])
    /\ trnode[i] # nodes.bvnode[i]
    /\ ~AmongParents(trnode[i], nodes.bvnode[i])
    /\ ~AmongParents(nodes.bvnode[i], trnode[i])

\* the insert of surface i has thrown and has left no element of it in
\* the list
Thrown(i) ==
    /\ log.err = "trnode/bvnode are not on the same branch"
    /\ log.arrived[Len(log.arrived)] = i
    /\ \A a \in Linked(heap) : heap.temp[a] # Surface(i)

\* C14 as stated: the insert of a candidate whose trnode array and bvnode
\* array are both present, distinct and not among each other's parents
\* throws "trnode/bvnode are not on the same branch", whoever asks, and the
\* candidate is not linked into the list.
C14_OffBranchAnyRequester ==
    \A n \in DOMAIN log.arrived :
        OffBranch(log.arrived[n]) => Thrown(log.arrived[n])

\* C14 amended: for a requester that is a surface, the insert of a
\* candidate whose trnode array and bvnode array are both present, distinct
\* and not among each other's parents throws "trnode/bvnode are not on the
\* same branch" and the candidate is not linked into the list; for a
\* requester that is no surface the bvnode is not looked at and nothing is
\* thrown.
C14_OffBranchThrows ==
    /\ \A n \in DOMAIN log.arrived :
           (OffBranch(log.arrived[n]) /\ RT_IS_SURFACE(nodes.obj))
               => Thrown(log.arrived[n])
    /\ ~RT_IS_SURFACE(nodes.obj)
           => log.err # "trnode/bvnode are not on the same branch"

\* the second surface is off the branch, the first is in the list
C14_Witness ==
    /\ RT_IS_SURFACE(nodes.obj) /\ log.arrived = <<0, 1>>
    /\ OffBranch(1) /\ ~OffBranch(0)
    /\ Thrown(1)
    /\ \E a \in Linked(heap) : heap.temp[a] = Surface(0)

\* insert never reads through RT_NULL while it sorts
InsertNoFault == log.filtered = 0 => log.err # "fault"

\* the elements of a hierarchical list from a on, depth first: a node
\* element, the elements of its sublist, then what follows it
RECURSIVE PreOrder(_, _)
PreOrder(h, a) ==
    IF a = 0 THEN <<>>
    ELSE IF a \in GroupElems(h)
    THEN <<a>> \o PreOrder(h, h.simd[a].p) \o PreOrder(h, h.next[a])
    ELSE <<a>> \o PreOrder(h, h.next[a])

\* the list of the slot along "next"
Flat(h) == Chain(h, h.head.p)

\* filter has been called on the list of the slot, once
Filtered == log.filtered = 1 /\ log.slot = 0

\* C15: after filter, the list of the slot along "next" is the hierarchy it
\* was called on in depth-first pre-order (a node element, the contents of
\* its sublist, then what followed it), every inserted surface is in it
\* once, every surface element has data 0 and simd = s_srf of its surface,
\* and no element of the list holds a tagged sublist pointer in simd.
C15_FilterFlattens ==
    Filtered =>
        /\ log.err = ""
        /\ Flat(heap) = PreOrder(log.before, log.before.head.p)
        /\ \A n \in DOMAIN log.arrived :
               Cardinality({x \in DOMAIN Flat(heap) :
                   heap.temp[Flat(heap)[x]] = Surface(log.arrived[n])}) = 1
        /\ \A x \in DOMAIN Flat(heap) :
               LET a == Flat(heap)[x]
               IN  /\ heap.simd[a] = Ssrf(heap.temp[a])
                   /\ RT_IS_SURFACE(heap.temp[a]) => heap.data[a] = 0

\* a node element with two surfaces in its sublist, followed by a surface
C15_Witness ==
    /\ Filtered /\ log.err = ""
    /\ Len(Flat(heap)) = 4
    /\ LET b == log.before
       IN  /\ b.head.p \in GroupElems(b)
           /\ Len(Chain(b, b.simd[b.head.p].p)) = 2
           /\ b.next[b.head.p] # 0
           /\ RT_IS_SURFACE(b.temp[b.next[b.head.p]])
    /\ RT_IS_ARRAY(heap.temp[Flat(heap)[1]])
    /\ \A x \in 2 .. 4 : RT_IS_SURFACE(heap.temp[Flat(heap)[x]])

\* filter has been called on the list of the slot a second time
FilteredAgain == log.filtered = 2 /\ log.slot = 0

\* C16: a second filter on the list of the slot changes nothing: it ends
\* without fault and leaves every element, link and field as the first
\* filter left them, also when the list has node elements.
C16_FilterIdempotent ==
    FilteredAgain => log.err = "" /\ heap = log.before

\* a second filter on a list of surface elements only changes nothing
FilterAgainFlat ==
    (FilteredAgain /\ \A a \in 1 .. log.before.top :
                          RT_IS_SURFACE(log.before.temp[a]))
        => log.err = "" /\ heap = log.before

\* surfaces 0 and 1 are inserted under the trnode array 1 and nothing else
SharedTrnode ==
    /\ srf_num >= 2
    /\ \A i \in 0 .. 1 :
           /\ trnode[i] = Array(1)
           /\ RT_IS_SURFACE(nodes.obj) => nodes.bvnode[i] = NullNode

\* the last leaf of the node element g of the hierarchy b
LastLeaf(b, g) ==
    LET sub == PreOrder(b, b.simd[g].p) IN sub[Len(sub)]

\* C17: two surfaces with the same trnode array inserted into an empty
\* list and filtered give the list <<node element, surface, surface>>, the
\* node element's data is the address of the last of the two with the type
\* (0, trnode) in the lower bits, and the element after that last surface
\* is what followed the node element before; in every filtered list the
\* node elements of the top level have data = last leaf | type and the
\* last leaf is followed by what followed the node element before.
C17_GroupRoundTrip ==
    (Filtered /\ log.err = "") =>
        /\ (log.arrived = <<0, 1>> /\ SharedTrnode) =>
               LET f == Flat(heap)
               IN  /\ Len(f) = 3
                   /\ heap.temp[f[1]] = Array(1)
                   /\ {heap.temp[f[2]], heap.temp[f[3]]}
                          = {Surface(0), Surface(1)}
                   /\ heap.data[f[1]] = 4 * f[3] + 0
                   /\ heap.next[f[3]] = log.before.next[f[1]]
        /\ LET b == log.before
           IN  \A x \in DOMAIN Chain(b, b.head.p) :
                   LET g == Chain(b, b.head.p)[x]
                   IN  g \in GroupElems(b) =>
                           /\ heap.data[g] = 4 * LastLeaf(b, g) + b.simd[g].k
                           /\ heap.next[LastLeaf(b, g)] = b.next[g]

C17_Witness ==
    /\ Filtered /\ log.err = ""
    /\ log.arrived = <<0, 1>> /\ SharedTrnode
    /\ Len(Flat(heap)) = 3
    /\ heap.data[Flat(heap)[1]] = 4 * Flat(heap)[3]

\* C18: filter returns the last leaf of the hierarchy it walked, which is
\* the last element of the flattened list, a surface element whose next is
\* RT_NULL; it returns RT_NULL for an empty list and for no slot.
C18_FilterReturnsLastLeaf ==
    /\ (Filtered /\ log.err = "") =>
           LET f == Flat(heap)
               p == PreOrder(log.before, log.before.head.p)
           IN  IF f = <<>> THEN log.ret = 0
               ELSE /\ log.ret = f[Len(f)]
                    /\ log.ret = p[Len(p)]
                    /\ heap.next[log.ret] = 0
                    /\ RT_IS_SURFACE(heap.temp[log.ret])
    /\ log.slot = NoSlot => log.ret = 0

\* the last leaf is in a sublist, behind the first leaf
C18_Witness ==
    /\ Filtered /\ log.err = ""
    /\ Len(Flat(heap)) = 3
    /\ log.before.head.p \in GroupElems(log.before)
    /\ log.before.next[log.before.head.p] = 0
    /\ log.ret = Flat(heap)[3]
    /\ log.ret # log.before.simd[log.before.head.p].p

\* the arrival orders of n surfaces
Arrivals(n) ==
    {p \in [1 .. n -> 0 .. (n - 1)] :
        \A x, y \in 1 .. n : x # y => p[x] # p[y]}

\* the list insert builds from the empty list for the arrival order p
RECURSIVE BuildFrom(_, _, _)
BuildFrom(h, p, x) ==
    IF x > Len(p) THEN h
    ELSE BuildFrom(insert(h, nodes.obj, 0, Surface(p[x])).h, p, x + 1)

Built(p) == BuildFrom(NoHeap, p, 1)

\* the surfaces of a hierarchical list in the order of the list
Leaves(h) ==
    LET p == PreOrder(h, h.head.p)
        t == [x \in DOMAIN p |-> h.temp[p[x]]]
    IN  SelectSeq(t, RT_IS_SURFACE)

\* every surface has been inserted, with sorting, and nothing else done
AllSorted ==
    /\ Building /\ nodes.sort
    /\ srf_num >= 2 /\ Len(log.arrived) = srf_num

\* the nodes of the list elements
ListNodes(h) == {h.temp[a] : a \in 1 .. h.top}

\* every order value among the nodes of the list is strict ("don't swap"
\* or "unsortable")
AllStrict ==
    \A a, b \in ListNodes(heap) : a # b => Strict(bbox_sort[<<a, b>>])

\* the order values among the nodes of the list are those of a strict
\* total order: "don't swap" one way, "do swap" the other way, transitive
TotalOrder ==
    /\ \A a, b \in ListNodes(heap) :
           a # b => /\ bbox_sort[<<a, b>>] \in {1, 2}
                    /\ bbox_sort[<<b, a>>] = Exchanged(bbox_sort[<<a, b>>])
    /\ \A a, b, c \in ListNodes(heap) :
           (a # b /\ b # c /\ a # c /\ bbox_sort[<<a, b>>] = 1
            /\ bbox_sort[<<b, c>>] = 1) => bbox_sort[<<a, c>>] = 1

PartialOrder ==
    /\ \A a, b \in ListNodes(heap) :
           a # b => /\ bbox_sort[<<a, b>>] \in {1, 2, 3}
                    /\ bbox_sort[<<b, a>>] = Exchanged(bbox_sort[<<a, b>>])
    /\ \A a, b, c \in ListNodes(heap) :
           (a # b /\ b # c /\ a # c /\ bbox_sort[<<a, b>>] = 1
            /\ bbox_sort[<<b, c>>] = 1) => bbox_sort[<<a, c>>] = 1

\* no element of the level lv is before an element it is to be swapped
\* with
Extension(h, lv) ==
    \A x, y \in DOMAIN lv :
        x < y => bbox_sort[<<h.temp[lv[x]], h.temp[lv[y]]>>] # 2

\* C20: when the order values are those of a strict partial order, after
\* every insert with sorting every list level is a linear extension of
\* it: no element X is before an element Y with order value "do swap"
\* for (X, Y).
C20_LinearExtension ==
    (Building /\ nodes.sort /\ PartialOrder) =>
        \A lv \in Levels(heap) : Extension(heap, lv)

\* three surfaces, 0 after 2 and 1 neutral to both: 1 has been moved
\* behind 0, 2 arrives last and stays before 0
C20_Witness ==
    /\ Building /\ nodes.sort /\ PartialOrder
    /\ log.arrived = <<0, 1, 2>>
    /\ GroupElems(heap) = {}
    /\ bbox_sort[<<Surface(2), Surface(0)>>] = 1
    /\ bbox_sort[<<Surface(1), Surface(0)>>] = 3
    /\ bbox_sort[<<Surface(1), Surface(2)>>] = 3
    /\ Leaves(heap) = <<Surface(2), Surface(0), Surface(1)>>
    /\ Extension(heap, Flat(heap))

\* the elements of the level lv are in the order they were allocated,
\* which is the order they arrived: every insert allocates its elements
\* above those of the inserts before it
ArrivalOrder(lv, x, y) == x < y => lv[x] < lv[y]

\* the nodes of the elements a and b are "neutral" to each other
Neutral(h, a, b) == Order(h, a, b) = 3 /\ Order(h, b, a) = 3

Unordered(h, lv, x, y) ==
    \A z \in DOMAIN lv :
        (z # x /\ z # y) => /\ ~Strict(Order(h, lv[x], lv[z]))
                            /\ ~Strict(Order(h, lv[z], lv[x]))

RT_ABS(a) == IF a < 0 THEN -a ELSE a

\* a & (w - 1), w a power of two
LowBits(a, w) == a % w

RECURSIVE Pow2(_)
Pow2(k) == IF k = 0 THEN 1 ELSE 2 * Pow2(k - 1)

\* the dimensions <<x_res, y_res, x_row>> the constructor is called with:
\* one for every clause of its test, one line of a SIMD width forwards,
\* two lines backwards
DimArgs ==
    {<<0, 1, RT_SIMD_WIDTH>>, <<1, 1, 0>>, <<1, 0, RT_SIMD_WIDTH>>,
     <<1, 1, RT_SIMD_WIDTH - 1>>, <<1, 1, RT_SIMD_WIDTH>>,
     <<2, 2, -RT_SIMD_WIDTH>>}

\* the frame addresses the constructor is called with
FramePtrs == {RT_NULL} \cup {Pow2(k) : k \in 0 .. MaxBits}

\* x_res == 0 || RT_ABS(x_row) < x_res
\* || y_res == 0 || RT_ABS(x_row) & (RT_SIMD_WIDTH - 1)
DimsNotValid(x_res, y_res, x_row) ==
    \/ x_res = 0
    \/ RT_ABS(x_row) < x_res
    \/ y_res = 0
    \/ LowBits(RT_ABS(x_row), RT_SIMD_WIDTH) # 0

\* (rt_word)frame & (RT_SIMD_ALIGN - 1) != 0: the comparison binds
\* tighter than the &, its result is 1 or 0, and the & leaves the lowest
\* bit of the address
NotAligned(frm) ==
    LowBits(frm, 2) * (IF RT_SIMD_ALIGN - 1 # 0 THEN 1 ELSE 0) # 0

\* the exception the constructor throws for these arguments, "" when it
\* throws none
CtorThrows(d, x_res, y_res, x_row, frm) ==
    IF scn[d].lock # RT_NULL
    THEN "scene data is locked by another instance"
    ELSE IF DimsNotValid(x_res, y_res, x_row)
    THEN "frambuffer's dimensions are not valid"
    ELSE IF frm # RT_NULL /\ NotAligned(frm)
    THEN "frame pointer is not simd-aligned in scene"
    ELSE IF scn[d].tag # "ARRAY"
    THEN "scene's root is not an array"
    ELSE IF ~scn[d].cam
    THEN "scene doesn't contain camera"
    ELSE ""

\* the frames alloc can return for RT_SIMD_ALIGN, moved to the last line
\* when x_row is negative (frame is a pointer to 32-bit words)
FrameAlloc(y_res, x_row) ==
    {a + (IF x_row < 0 THEN 4 * RT_ABS(x_row) * (y_res - 1) ELSE 0) :
        a \in {f \in FramePtrs : f # RT_NULL /\ LowBits(f, RT_SIMD_ALIGN) = 0}}

\* the object i as the constructor leaves it
Constructed(i, d, x_res, y_res, x_row, frm) ==
    /\ inst' = [inst EXCEPT ![i] = [scn |-> d, x_res |-> x_res,
                                    y_res |-> y_res, x_row |-> x_row,
                                    frame |-> frm]]
    /\ scn' = [scn EXCEPT ![d].lock = i]

\* new rt_Scene(scn, x_res, y_res, x_row, frame, ...) for the object i on
\* the description d
Construct(i, d) ==
    /\ inst[i] = NoInst
    /\ \E dim \in DimArgs, frm \in FramePtrs :
          \E err \in {CtorThrows(d, dim[1], dim[2], dim[3], frm)} :
              /\ ctor' = [scn |-> d, frame |-> frm, err |-> err]
              /\ IF err # "" THEN UNCHANGED <<scn, inst>>
                 ELSE IF frm # RT_NULL
                 THEN Constructed(i, d, dim[1], dim[2], dim[3], frm)
                 ELSE \E a \in FrameAlloc(dim[2], dim[3]) :
                          Constructed(i, d, dim[1], dim[2], dim[3], a)
    /\ UNCHANGED <<thnum, srf_num, lgt_num, opts, trnode, raster, clipper,
                   builder, pc, mpool, thpool, slice, bounds, slist, llist,
                   msc_p, lst_p, tiles, did, scratch, evt, rd>>

\* the destructor leaves the lock as it is
DestroyLocked(i) ==
    /\ inst[i] # NoInst
    /\ inst' = [inst EXCEPT ![i] = NoInst]
    /\ ctor' = NoCall
    /\ UNCHANGED <<scn, thnum, srf_num, lgt_num, opts, trnode, raster,
                   clipper, builder, pc, mpool, thpool, slice, bounds, slist,
                   llist, msc_p, lst_p, tiles, did, scratch, evt, rd>>

\* delete of the object i
Destroy(i) ==
    /\ inst[i] # NoInst
    /\ scn' = [scn EXCEPT ![inst[i].scn].lock = RT_NULL]
    /\ inst' = [inst EXCEPT ![i] = NoInst]
    /\ ctor' = NoCall
    /\ UNCHANGED <<thnum, srf_num, lgt_num, opts, trnode, raster, clipper,
                   builder, pc, mpool, thpool, slice, bounds, slist, llist,
                   msc_p, lst_p, tiles, did, scratch, evt, rd>>

\* the scene descriptions, unlocked, and no rt_Scene object
InitScene ==
    /\ scn \in [ScnData -> [tag : {"ARRAY", "SURFACE"}, cam : BOOLEAN,
                            lock : {RT_NULL}]]
    /\ inst = [i \in Insts |-> NoInst]
    /\ ctor = NoCall
    /\ thnum = 1
    /\ srf_num = 0
    /\ lgt_num = 0
    /\ opts = [thread |-> FALSE, tiling |-> FALSE]
    /\ trnode = [i \in Srfs |-> NullNode]
    /\ pc = "idle"
    /\ mpool = FALSE
    /\ thpool = [w \in Thrds |-> FALSE]
    /\ slice = [w \in Thrds |-> [ph |-> 0, i |-> 0, st |-> "done"]]
    /\ bounds = [i \in Srfs |-> ResetBounds]
    /\ slist = StaleList
    /\ llist = [st |-> "stale", el |-> <<>>, shw |-> "stale"]
    /\ msc_p = [i \in Srfs |-> StaleList]
    /\ lst_p = [i \in Srfs |-> [s |-> "stale", l |-> "stale"]]
    /\ tiles = [st |-> "stale", el |-> [t \in TileIdx |-> <<>>]]
    /\ did = [p \in 1 .. 2 |-> [i \in Srfs |-> <<>>]]
    /\ scratch = [w \in Thrds |-> -1]
    /\ evt = NoEvt
    /\ rd = {}
    /\ RasterIdle
    /\ ClipperIdle
    /\ BuilderIdle

NextScene ==
    \/ \E i \in Insts, d \in ScnData : Construct(i, d)
    \/ \E i \in Insts : Destroy(i)

SpecScene == InitScene /\ [][NextScene]_vars

\* the live rt_Scene objects
Live == {i \in Insts : inst[i] # NoInst}

\* every lock is held by a live object constructed on that description,
\* and every live object holds the lock of its description
LockHeld ==
    /\ \A d \in ScnData :
           scn[d].lock # RT_NULL =>
               scn[d].lock \in Live /\ inst[scn[d].lock].scn = d
    /\ \A i \in Live : scn[inst[i].scn].lock = i

\* a constructor call on locked data throws "locked" and leaves the lock;
\* on unlocked data a call that throws leaves the lock unset and a call
\* that does not throw sets it; a destructor call clears the lock of its
\* description
LockSteps ==
    /\ \A d \in ScnData :
           (ctor' # NoCall /\ ctor'.scn = d) =>
               /\ scn[d].lock # RT_NULL =>
                      /\ ctor'.err = "scene data is locked by another instance"
                      /\ scn'[d].lock = scn[d].lock
               /\ scn[d].lock = RT_NULL =>
                      /\ ctor'.err # "scene data is locked by another instance"
                      /\ ctor'.err # "" => scn'[d].lock = RT_NULL
                      /\ ctor'.err = "" => scn'[d].lock \in Live' \ Live
    /\ \A i \in Insts :
           (inst[i] # NoInst /\ inst'[i] = NoInst) =>
               scn'[inst[i].scn].lock = RT_NULL

\* C22: at most one rt_Scene object is alive per scene description: a
\* constructor call on locked data throws "scene data is locked by another
\* instance" and the lock stays with the first object; a call that throws
\* on unlocked data leaves it unlocked; a call that succeeds sets the lock
\* and the destructor clears it.
C22_SceneLock ==
    /\ [](LockHeld /\ \A i, j \in Live : inst[i].scn = inst[j].scn => i = j)
    /\ [][LockSteps]_vars

\* an object is alive on a description and a second constructor call on
\* it has just thrown
C22_Witness ==
    /\ ctor.err = "scene data is locked by another instance"
    /\ scn[ctor.scn].lock \in Live
    /\ Live # Insts

\* C23 as stated: a constructor call with a frame pointer that is not
\* RT_NULL and not a multiple of RT_SIMD_ALIGN throws, and when the data
\* is unlocked and the dimensions are valid it throws "frame pointer is
\* not simd-aligned in scene".
C23_MisalignedRejected ==
    (ctor # NoCall /\ ctor.frame # RT_NULL
     /\ ctor.frame % RT_SIMD_ALIGN # 0) =>
        ctor.err \in {"scene data is locked by another instance",
                      "frambuffer's dimensions are not valid",
                      "frame pointer is not simd-aligned in scene"}

(***************************************************************************)
(* Properties of the update phases (specification Spec).                   *)
(***************************************************************************)
\* some slice of phase 2 has been tasked and the frame is not over
Phase2Tasked == pc # "idle" /\ \E w \in Thrds : slice[w].ph = 2

\* C24: from the moment the phase-2 slices are tasked, the global lists
\* slist and llist are those assigned in the running frame, the light
\* elements of llist refer to the slist of the running frame, and every
\* candidate slot phase 2 has set holds a list of the running frame.
C24_ListsOfThisFrame ==
    /\ Phase2Tasked =>
           /\ "lists" \in evt.done
           /\ slist.st # "stale" /\ llist.st # "stale" /\ llist.shw # "stale"
           /\ lgt_num > 0 => llist.shw = slist.st
    /\ pc # "idle" =>
           \A i \in Srfs :
               did[2][i] # <<>> =>
                   lst_p[i].s # "stale" /\ lst_p[i].l # "stale"

\* in a second frame, phase 2 has set the slots of every surface, one of
\* them to the global lists rebuilt in that frame
C24_Witness ==
    /\ "again" \in evt.done /\ Phase2Tasked
    /\ srf_num = 3 /\ lgt_num > 0
    /\ \A i \in Srfs : did[2][i] # <<>>
    /\ slist.st = "cur" /\ llist.st = "cur" /\ llist.shw = "cur"
    /\ \E i \in Srfs : lst_p[i].s = slist.st /\ lst_p[i].l = llist.st

\* what a step of the slice of worker w that processes a surface writes:
\* no slice position and no scratch but its own, tile-list and candidate
\* slots of its own surfaces only, no global list, tile or pool
OwnWrites(w) ==
    /\ slice'[w].i # slice[w].i
    /\ \A v \in Thrds \ {w} :
           slice'[v] = slice[v] /\ scratch'[v] = scratch[v]
    /\ scratch'[w] \in {scratch[w]} \cup {i \in Srfs : i % thnum = w}
    /\ \A i \in Srfs :
           (\/ msc_p'[i] # msc_p[i] \/ lst_p'[i] # lst_p[i]
            \/ did'[1][i] # did[1][i] \/ did'[2][i] # did[2][i])
               => i % thnum = w
    /\ UNCHANGED <<slist, llist, tiles, mpool, thpool>>

\* C25: under every interleaving of the slices of an update phase, a
\* step of worker w writes only its own scratch and the tile-list and
\* candidate slots of surfaces i with i % thnum = w, never the tile grid,
\* slist or llist, and no slot is written by two workers.
C25_RaceFree ==
    /\ [][(did' # did /\ pc' = pc) => \E w \in Thrds : OwnWrites(w)]_vars
    /\ [](\A p \in 1 .. 2 : \A i \in Srfs : \A x, y \in DOMAIN did[p][i] :
              did[p][i][x] = did[p][i][y])

\* two workers in phase 1 at the same time, each has tiled a surface of
\* its own with its own scratch
C25_Witness ==
    /\ thnum = 2 /\ srf_num = 3 /\ opts.thread /\ opts.tiling
    /\ pc = "wait1" /\ slice[0].st = "run" /\ slice[1].st = "run"
    /\ scratch = [w \in Thrds |-> w]
    /\ did[1][0] = <<0>> /\ did[1][1] = <<1>> /\ did[1][2] = <<>>

(***************************************************************************)
(* Properties of the sorting of insert (specification SpecList).           *)
(***************************************************************************)
\* the last step was an insert with sorting that has returned an element
Inserted == Building /\ nodes.sort /\ log.ret # 0

\* the list level of an owner: of the slot (0) or of the node element a
LevelOf(h, a) == Chain(h, IF a = 0 THEN h.head.p ELSE h.simd[a].p)

\* the elements of a sequence
Elems(lv) == {lv[x] : x \in DOMAIN lv}

\* the owners of the list levels there were before the last insert
Owners == {0} \cup GroupElems(log.before)

\* the level of the owner a has got the outer-most new element: it holds
\* the elements it had and the new one, each once
Received(a) ==
    LET old == LevelOf(log.before, a)
        new == LevelOf(heap, a)
    IN  /\ Elems(new) = Elems(old) \cup {log.ret}
        /\ Len(new) = Len(old) + 1
        /\ Cardinality(Elems(new)) = Len(new)

\* C26: an insert with sorting reorders one list level only, the one that
\* has got the outer-most new element: that level holds the elements it
\* had and the new one, each once, along a chain that ends in RT_NULL;
\* every other level there was holds the same elements in the same order.
C26_OneLevelPermuted ==
    Inserted =>
        /\ GroupElems(log.before) \subseteq GroupElems(heap)
        /\ \E a \in Owners :
               /\ Received(a)
               /\ \A b \in Owners \ {a} :
                      LevelOf(heap, b) = LevelOf(log.before, b)

\* the new surface has been sorted into the list of the slot behind an
\* element that was there, next to a node element whose sublist is as it
\* was
C26_Witness ==
    /\ Inserted
    /\ Received(0)
    /\ Head(LevelOf(heap, 0)) # log.ret
    /\ \E b \in GroupElems(log.before) :
           /\ b \in Elems(LevelOf(heap, 0))
           /\ LevelOf(heap, b) = LevelOf(log.before, b)
           /\ LevelOf(heap, b) # <<>>

\* the order values agree under exchange of the two nodes: "don't swap"
\* one way is "do swap" the other way, "neutral" and "unsortable" are
\* the same both ways
ExchangeConsistent ==
    \A a, b \in ListNodes(heap) :
        a # b => bbox_sort[<<b, a>>] = Exchanged(bbox_sort[<<a, b>>])

\* every element of the level lv that has a successor stores the order
\* value of the two
Cached(h, lv) ==
    \A x \in DOMAIN lv :
        x < Len(lv) =>
            /\ h.data[lv[x]] # 0
            /\ h.data[lv[x]] = Order(h, lv[x], lv[x + 1])

\* C28: with order values that agree under exchange, after every insert
\* with sorting every element of every list level that has a successor
\* stores the order value of the two, which is not zero: the values kept
\* in "state" and in the data fields are those bbox_sort gives.
C28_OrderCached ==
    (Building /\ nodes.sort /\ ExchangeConsistent) =>
        \A lv \in Levels(heap) : Cached(heap, lv)

\* the comb has been at work: the fifth surface has stayed at the head
\* and an element from further behind has been moved in front of it
\* together with an element of the tail
C28_Witness ==
    /\ Building /\ nodes.sort /\ ExchangeConsistent
    /\ log.arrived = <<0, 1, 2, 3, 4>>
    /\ Flat(log.before) = <<1, 2, 3, 4>>
    /\ Flat(heap) = <<2, 4, 5, 1, 3>>
    /\ Cached(heap, Flat(heap))

\* C29: after every insert with sorting the last element of every list
\* level stores no strict order value ("don't swap" or "unsortable"), so
\* the search for the end of the strict-order-chain stops at an element.
C29_LastNotStrict ==
    (Building /\ nodes.sort) =>
        \A lv \in Levels(heap) :
            lv # <<>> => ~Strict(heap.data[lv[Len(lv)]])

\* the new element has stopped in front of a chain of two strict values,
\* which ends at an element of the list
C29_Witness ==
    /\ Building /\ nodes.sort /\ log.err = ""
    /\ LET lv == Flat(heap)
       IN  \E k \in 1 .. (Len(lv) - 2) :
               /\ lv[k] = Len(log.arrived)
               /\ Strict(heap.data[lv[k]])
               /\ Strict(heap.data[lv[k + 1]])
               /\ ~Strict(heap.data[lv[k + 2]])

(***************************************************************************)
(* The calls of insert and filter within one frame, sequential update:     *)
(* render calls ssort(cam) and lsort(cam), then update_slice(0, 2) calls   *)
(* ssort(srf) and lsort(srf) for every surface.  reqs collects, for every  *)
(* call, the slot it targets, the object passed as "obj" and whether a     *)
(* surface is passed as "srf" (the order values are computed for those     *)
(* calls only).  bbox_side, cbox_side, bbox_shad and the materials are     *)
(* inputs.                                                                 *)
(***************************************************************************)
Lgts == 0 .. (lgt_num - 1)

\* "c & b" for the bit b of a side value c
Bit(c, b) == (c \div b) % 2 # 0

\* the slots: s_srf->lst_p[k], the local "lst" of a call of ssort or lsort,
\* and the data field of the light element for lgt in the list of a slot;
\* NullSlot is RT_NULL
NullSlot        == [at |-> "null", of |-> NullNode, k |-> -1, lgt |-> -1]
LstP(srf, k)    == [at |-> "lst_p", of |-> srf, k |-> k, lgt |-> -1]
Lst(fn, obj)    == [at |-> fn, of |-> obj, k |-> -1, lgt |-> -1]
Data(slot, lgt) == [slot EXCEPT !.lgt = lgt.id]

\* scene->slist and scene->llist as values of a slot, and the value c a
\* function of the geometry or the material test returns
Slist    == [at |-> "slist", of |-> NullNode, k |-> -1, lgt |-> -1]
Llist    == [at |-> "llist", of |-> NullNode, k |-> -1, lgt |-> -1]
Value(c) == [at |-> "value", of |-> NullNode, k |-> c, lgt |-> -1]

\* the steps of a call of ssort or lsort, in program order: the calls of
\* insert and filter, the stores of a list head into a slot (*ptr = val)
\* and the values asked for (fn(obj, ref) has returned val)
InsertCall(obj, ptr, srf) ==
    [fn |-> "insert", obj |-> obj, ptr |-> ptr, srf |-> srf # NullNode,
     ref |-> srf, val |-> NullSlot]
\* filter(obj, RT_NULL) returns at once
FilterCall(obj, ptr) ==
    IF ptr = NullSlot THEN <<>>
    ELSE <<[fn |-> "filter", obj |-> obj, ptr |-> ptr, srf |-> FALSE,
            ref |-> NullNode, val |-> NullSlot]>>
Store(obj, ptr, val) ==
    [fn |-> "store", obj |-> obj, ptr |-> ptr, srf |-> FALSE,
     ref |-> NullNode, val |-> val]
Asked(fn, obj, ref, c) ==
    [fn |-> fn, obj |-> obj, ptr |-> NullSlot, srf |-> FALSE,
     ref |-> ref, val |-> Value(c)]

\* the calls of insert and filter among the steps: the function, obj, the
\* slot and whether a surface is passed
Call(c) == [fn |-> c.fn, obj |-> c.obj, ptr |-> c.ptr, srf |-> c.srf]
Calls(tr) ==
    {Call(tr[n]) : n \in {x \in DOMAIN tr : tr[x].fn \in {"insert", "filter"}}}

\* the outer list gets the surfaces of the inner side and the other way
SsortRefSwapped(obj, pto, pti, ref, c) ==
    <<Asked("bbox_side", obj, ref, c)>>
    \o (IF Bit(c, 1) THEN <<InsertCall(obj, pto, ref)>> ELSE <<>>)
    \o (IF Bit(c, 2) THEN <<InsertCall(obj, pti, ref)>> ELSE <<>>)

\* ssort, two-sided: c = bbox_side(srf, ref); the surface goes into the
\* outer list for c & 2, into the inner list for c & 1
SsortRef(obj, pto, pti, ref, c) ==
    <<Asked("bbox_side", obj, ref, c)>>
    \o (IF Bit(c, 2) THEN <<InsertCall(obj, pto, ref)>> ELSE <<>>)
    \o (IF Bit(c, 1) THEN <<InsertCall(obj, pti, ref)>> ELSE <<>>)

\* ssort(obj): mat tells that the surface's material reflects or is not
\* opaque (asked when RT_OPTS_RENDER is on), side[r] is bbox_side(srf, ref)
ssort(obj, mat, side) ==
    LET srf == IF RT_IS_SURFACE(obj) THEN obj ELSE NullNode
        pto == IF srf # NullNode THEN LstP(obj, 1) ELSE NullSlot
        pti == IF srf # NullNode THEN LstP(obj, 3) ELSE NullSlot
        ptr == Lst("ssort", obj)
        tst == IF srf # NullNode /\ opts.render
               THEN <<Asked("mat_p", obj, obj, IF mat THEN 1 ELSE 0)>> ELSE <<>>
        loop[r \in 0 .. srf_num] ==
            IF r = srf_num THEN <<>>
            ELSE (IF opts.twosided /\ srf # NullNode
                  THEN SsortRef(obj, pto, pti, Surface(r), side[r])
                  ELSE <<InsertCall(obj, ptr, Surface(r))>>) \o loop[r + 1]
    IN  IF srf # NullNode /\ ~(opts.render /\ mat)
        THEN tst \o <<Store(obj, pto, Slist), Store(obj, pti, Slist)>>
        ELSE tst
             \o (IF srf # NullNode
                 THEN <<Store(obj, pto, NullSlot), Store(obj, pti, NullSlot)>>
                 ELSE <<>>)
             \o <<Store(obj, ptr, NullSlot)>>
             \o loop[0]
             \o (IF opts.insert
                 THEN FilterCall(obj, pto) \o FilterCall(obj, pti)
                      \o FilterCall(obj, ptr)
                 ELSE <<>>)
             \o (IF srf # NullNode /\ ~opts.twosided
                 THEN <<Store(obj, pto, ptr), Store(obj, pti, ptr)>>
                 ELSE <<>>)

\* insert(lgt, ptr, RT_NULL): the light's element becomes the head of the
\* list, its data field is given scene->slist
LightInsert(lgt, el, ptr) ==
    <<InsertCall(lgt, ptr, NullNode), Store(lgt, Data(ptr, el), Slist)>>

\* every surface is a shadow surface, whatever bbox_shad returns
ShadowRefAll(lgt, srf, shw, pso, psi, psr, sh, c) ==
    <<Asked("bbox_shad", lgt, shw, IF sh THEN 1 ELSE 0)>>
    \o (IF opts.twosided
        THEN <<Asked("bbox_side", srf, shw, c)>>
             \o (IF Bit(c, 2) /\ pso # NullSlot
                 THEN <<InsertCall(lgt, pso, shw)>> ELSE <<>>)
             \o (IF Bit(c, 1) /\ psi # NullSlot
                 THEN <<InsertCall(lgt, psi, shw)>> ELSE <<>>)
        ELSE <<InsertCall(lgt, psr, shw)>>)

\* one surface shw of the shadow loop: sh tells bbox_shad(lgt, shw, srf)
\* # 0, c is bbox_side(srf, shw), asked in two-sided mode
ShadowRef(lgt, srf, shw, pso, psi, psr, sh, c) ==
    <<Asked("bbox_shad", lgt, shw, IF sh THEN 1 ELSE 0)>>
    \o (IF ~sh THEN <<>>
        ELSE IF opts.twosided
        THEN <<Asked("bbox_side", srf, shw, c)>>
             \o (IF Bit(c, 2) /\ pso # NullSlot
                 THEN <<InsertCall(lgt, pso, shw)>> ELSE <<>>)
             \o (IF Bit(c, 1) /\ psi # NullSlot
                 THEN <<InsertCall(lgt, psi, shw)>> ELSE <<>>)
        ELSE <<InsertCall(lgt, psr, shw)>>)

\* the steps of lsort for one light: the light element, then the shadow
\* surfaces in the list at its data field; cside is cbox_side(lgt->pos,
\* srf), shad[s] tells bbox_shad(lgt, shw, srf) # 0, side[s] is
\* bbox_side(srf, shw); el is the light whose element is the head of the
\* list when the address of the data field is taken
LightCallsAt(lgt, el, srf, pto, pti, ptr, cside, shad, side) ==
    LET two == opts.twosided /\ srf # NullNode
        pso == IF two /\ Bit(cside, 2) THEN Data(pto, el) ELSE NullSlot
        psi == IF two /\ Bit(cside, 1) THEN Data(pti, el) ELSE NullSlot
        psr == IF two THEN NullSlot ELSE Data(ptr, el)
        loop[s \in 0 .. srf_num] ==
            IF s = srf_num THEN <<>>
            ELSE ShadowRef(lgt, srf, Surface(s), pso, psi, psr, shad[s], side[s])
                 \o loop[s + 1]
    IN  (IF two
         THEN <<Asked("cbox_side", lgt, srf, cside)>>
              \o (IF Bit(cside, 2)
                  THEN LightInsert(lgt, el, pto) \o <<Store(lgt, pso, NullSlot)>>
                  ELSE <<>>)
              \o (IF Bit(cside, 1)
                  THEN LightInsert(lgt, el, pti) \o <<Store(lgt, psi, NullSlot)>>
                  ELSE <<>>)
         ELSE LightInsert(lgt, el, ptr))
        \o
        (IF srf = NullNode THEN <<>>
         ELSE (IF psr # NullSlot THEN <<Store(lgt, psr, NullSlot)>> ELSE <<>>)
              \o loop[0]
              \o (IF opts.insert
                  THEN FilterCall(lgt, pso) \o FilterCall(lgt, psi)
                       \o FilterCall(lgt, psr)
                  ELSE <<>>))

\* the data field is that of the first light's element
LightCallsFirst(lgt, srf, pto, pti, ptr, cside, shad, side) ==
    LightCallsAt(lgt, Light(0), srf, pto, pti, ptr, cside, shad, side)

\* insert(lgt, ..) has made the light's element the head of the list:
\* pso = &(*pto)->data, psi = &(*pti)->data, psr = &(*ptr)->data
LightCalls(lgt, srf, pto, pti, ptr, cside, shad, side) ==
    LightCallsAt(lgt, lgt, srf, pto, pti, ptr, cside, shad, side)

\* lsort(obj)
lsort(obj, cside, shad, side) ==
    LET srf == IF RT_IS_SURFACE(obj) THEN obj ELSE NullNode
        pto == IF srf # NullNode THEN LstP(obj, 0) ELSE NullSlot
        pti == IF srf # NullNode THEN LstP(obj, 2) ELSE NullSlot
        ptr == Lst("lsort", obj)
        loop[k \in 0 .. lgt_num] ==
            IF k = lgt_num THEN <<>>
            ELSE LightCalls(Light(k), srf, pto, pti, ptr, cside[k], shad[k], side)
                 \o loop[k + 1]
    IN  IF srf # NullNode /\ ~opts.shadow
        THEN <<Store(obj, pto, Llist), Store(obj, pti, Llist)>>
        ELSE (IF srf # NullNode
              THEN <<Store(obj, pto, NullSlot), Store(obj, pti, NullSlot)>>
              ELSE <<>>)
             \o <<Store(obj, ptr, NullSlot)>>
             \o loop[0]
             \o (IF srf # NullNode /\ ~opts.twosided
                 THEN <<Store(obj, pto, ptr), Store(obj, pti, ptr)>>
                 ELSE <<>>)

\* the values of bbox_side, cbox_side and bbox_shad that are asked for
Mats   == IF opts.render THEN BOOLEAN ELSE {FALSE}
Sides  == IF opts.twosided THEN [Srfs -> 0 .. 3] ELSE {[s \in Srfs |-> 0]}
CSides == IF opts.twosided /\ opts.shadow
          THEN [Lgts -> 0 .. 3] ELSE {[k \in Lgts |-> 0]}
Shads  == IF opts.shadow
          THEN [Lgts -> [Srfs -> BOOLEAN]]
          ELSE {[k \in Lgts |-> [s \in Srfs |-> FALSE]]}

InitReq ==
    /\ SceneLive
    /\ thnum = 1
    /\ srf_num \in 0 .. MaxObj
    /\ lgt_num \in 0 .. (MaxObj - srf_num)
    /\ opts \in [thread : {FALSE}, tiling : {FALSE}, twosided : BOOLEAN,
                 shadow : BOOLEAN, insert : BOOLEAN, render : BOOLEAN]
    /\ trnode = [i \in Srfs |-> NullNode]
    /\ pc = "wait1"
    /\ mpool = TRUE
    /\ thpool = [w \in Thrds |-> TRUE]
    /\ slice = [w \in Thrds |-> [ph |-> 1, i |-> srf_num, st |-> "done"]]
    /\ bounds = [i \in Srfs |-> ResetBounds]
    /\ slist = StaleList
    /\ llist = [st |-> "stale", el |-> <<>>, shw |-> "stale"]
    /\ msc_p = [i \in Srfs |-> NullList]
    /\ lst_p = [i \in Srfs |-> [s |-> "stale", l |-> "stale"]]
    /\ tiles = [st |-> "stale", el |-> [t \in TileIdx |-> <<>>]]
    /\ did = [p \in 1 .. 2 |-> [i \in Srfs |-> IF p = 1 THEN <<0>> ELSE <<>>]]
    /\ scratch = [w \in Thrds |-> -1]
    /\ evt = [NoEvt EXCEPT !.done = {"hier"}]
    /\ rd = {}
    /\ RasterIdle
    /\ ClipperIdle
    /\ BuilderIdle

\* render: slist = tharr[0]->ssort(cam); llist = tharr[0]->lsort(cam);
\* then update_scene(this, thnum, 2) starts the loop of update_slice
SortCam ==
    /\ pc = "wait1" /\ Joined
    /\ pc' = "wait2"
    /\ slice' = [w \in Thrds |-> [ph |-> 2, i |-> 0, st |-> "run"]]
    /\ \E l \in SlistChoices(srf_num, trnode) :
           slist' = [st |-> IF l = <<>> THEN "null" ELSE Fresh(0), el |-> l]
    /\ llist' = LET ll == LlistOf(lgt_num, slist'.st)
                IN  IF ll.st = "cur" THEN [ll EXCEPT !.st = Fresh(0)] ELSE ll
    /\ reqs' = Calls(ssort(Camera, FALSE, [s \in Srfs |-> 0]))
               \cup Calls(lsort(Camera, [k \in Lgts |-> 0],
                                [k \in Lgts |-> [s \in Srfs |-> FALSE]],
                                [s \in Srfs |-> 0]))
    /\ UNCHANGED <<scene, raster, clipper, mpool, thpool, bounds, msc_p,
                   lst_p, tiles, did, scratch, evt, rd, nodes, bbox_sort,
                   heap, log, loc>>

\* update_slice(0, 2), one surface: ssort(srf); lsort(srf)
SortSrf ==
    /\ pc = "wait2" /\ slice[0].st = "run" /\ slice[0].i < srf_num
    /\ LET i == slice[0].i
       IN  /\ slice' = [slice EXCEPT ![0].i = i + 1]
           /\ \E mat \in Mats, side \in Sides, cside \in CSides,
                 shad \in Shads :
                /\ reqs' = reqs \cup Calls(ssort(Surface(i), mat, side))
                                \cup Calls(lsort(Surface(i), cside, shad, side))
                /\ lst_p' = [lst_p EXCEPT ![i] =
                       [s |-> IF opts.render /\ mat THEN Fresh(0) ELSE slist.st,
                        l |-> IF opts.shadow THEN Fresh(0) ELSE llist.st]]
           /\ did' = [did EXCEPT ![2][i] = Append(@, 0)]
    /\ UNCHANGED <<scene, raster, clipper, pc, mpool, thpool, bounds, slist,
                   llist, msc_p, tiles, scratch, evt, rd, nodes, bbox_sort,
                   heap, log, loc>>

\* the loop of update_slice is through and the frame ends; the next call
\* of render starts from no calls
FrameEnd ==
    /\ pc = "wait2" /\ slice[0].st = "run" /\ slice[0].i = srf_num
    /\ pc' = "wait1"
    /\ slice' = [w \in Thrds |-> [ph |-> 1, i |-> srf_num, st |-> "done"]]
    /\ did' = [p \in 1 .. 2 |-> [i \in Srfs |-> IF p = 1 THEN <<0>> ELSE <<>>]]
    /\ reqs' = {}
    /\ UNCHANGED <<scene, raster, clipper, mpool, thpool, bounds, slist,
                   llist, msc_p, lst_p, tiles, scratch, evt, rd, nodes,
                   bbox_sort, heap, log, loc>>

NextReq ==
    \/ SortCam
    \/ SortSrf
    \/ FrameEnd

SpecReq == InitReq /\ [][NextReq]_vars

\* the objects passed as "obj" by the calls that target a slot
Requesters(cs, ptr) == {c.obj : c \in {d \in cs : d.ptr = ptr}}
Slots(cs) == {c.ptr : c \in cs}

\* C30 as stated: within a frame all calls of insert and filter that
\* target one list slot pass the same object as "obj".
C30_OneRequester ==
    \A ptr \in Slots(reqs) : Cardinality(Requesters(reqs, ptr)) = 1

\* the calls with a surface to insert, and the calls of filter: the calls
\* that compute or clear order values
Ordering(cs) == {c \in cs : c.srf \/ c.fn = "filter"}

\* C30 amended: within a frame all calls that insert a surface into one
\* list slot, and the calls of filter for that slot, pass the same object
\* as "obj"; the slots that get more than one object are light lists, whose
\* calls pass the light to insert and no surface, so no order value in one
\* list is computed for two requesters.
C30_OneRequesterOfOrder ==
    /\ \A ptr \in Slots(Ordering(reqs)) :
           Cardinality(Requesters(Ordering(reqs), ptr)) = 1
    /\ \A ptr \in Slots(reqs) :
           Cardinality(Requesters(reqs, ptr)) > 1 =>
               \A c \in reqs : c.ptr = ptr =>
                   /\ c.fn = "insert" /\ ~c.srf /\ c.obj.tag = "LIGHT"
                   /\ ptr \notin Slots(Ordering(reqs))

\* a surface's light list has got the elements of two lights, and both
\* lights have got shadow surfaces in the lists of their own elements
C30_Witness ==
    /\ pc = "wait2" /\ slice[0].i = srf_num
    /\ \E ptr \in Slots(reqs) :
           /\ ptr.at = "lst_p" /\ ptr.lgt = -1
           /\ Requesters(reqs, ptr) = {Light(0), Light(1)}
           /\ \A k \in 0 .. 1 :
                  Call(InsertCall(Light(k), Data(ptr, Light(k)), Surface(0))) \in reqs

(***************************************************************************)
(* insert step by step (SpecSort).                                         *)
(***************************************************************************)
\* a call of insert is in progress
Sorting == loc.pc # "idle"

\* the list a call has returned is the one the operator insert gives
SortAgrees ==
    (~Sorting /\ log.arrived # <<>> /\ log.err = "") =>
        heap = insert(log.before, nodes.obj, 0,
                      Surface(Len(log.arrived) - 1)).h

\* C27: every call of insert returns, so phase 1, the search for the end
\* of the strict-order-chain, the loop over the tail of the comb and
\* phase 3, which the call goes through in this order, each come to their
\* end; no step reads a field through RT_NULL (the searches for the
\* previous element find it), and phase 3 is left only with
\* nxt = RT_NULL, the end of the list.
C27_InsertTerminates ==
    /\ [](Sorting => ~loc.s.fault)
    /\ [](loc.pc = "comb" => ~loc.w.fault)
    /\ [](loc.pc = "return" => loc.s.nxt = 0)
    /\ Sorting ~> ~Sorting

\* the comb is at work on a tail behind the strict-order-chain: its loop
\* has taken the tail element and is to find that it has come to "end";
\* the comb, phase 3 and the call are still to come to their end
C27_Witness ==
    /\ loc.pc = "comb"
    /\ loc.w.cur # loc.w.tlp /\ loc.w.cur = loc.w.end
    /\ ~loc.w.fault /\ ~loc.s.fault

(***************************************************************************)
(* Tags and roles of node elements (specification SpecList).               *)
(***************************************************************************)
\* the surfaces in the sublist of node element a, at any depth
Under(h, a) ==
    LET p == PreOrder(h, h.simd[a].p)
    IN  {h.temp[p[x]] : x \in DOMAIN p} \ {h.temp[g] : g \in GroupElems(h)}

\* the elements allocated for surfaces
SrfElems(h) == {a \in 1 .. h.top : RT_IS_SURFACE(h.temp[a])}

\* the last insert has linked its element into the sublist of node element
\* a, which was there before, and the sort has moved it behind another
MovedBehind(a) ==
    /\ a \in GroupElems(log.before)
    /\ log.before.simd[a].p # 0
    /\ heap.simd[a].p = log.before.simd[a].p
    /\ \E c \in {Chain(heap, heap.simd[a].p)} :
           \E x \in DOMAIN c \ {1} : c[x] = heap.top

\* C31: while a list is built, the low bits of a node element's "simd" field
\* hold the type it was made for (0: the array is the trnode of the surfaces
\* under it, 1: it is their bvnode, as the requester sees them), the writes
\* of a sublist head by insert and by its sort leave these bits as they
\* were, and the "simd" field of a surface element stays RT_NULL.
C31_TagKept ==
    Building =>
        /\ heap.head.k = 0
        /\ \A a \in 1 .. heap.top :
               RT_IS_ARRAY(heap.temp[a]) =>
                   /\ a \in GroupElems(heap)
                   /\ heap.simd[a].k \in 0 .. 1
                   /\ \A srf \in Under(heap, a) :
                          Arr(nodes.obj, srf)[heap.simd[a].k] = heap.temp[a]
        /\ \A a \in 1 .. log.before.top :
               /\ heap.temp[a] = log.before.temp[a]
               /\ heap.simd[a].k = log.before.simd[a].k
        /\ \A a \in SrfElems(heap) : heap.simd[a] = Tagged(0, 0)

\* the sort has written the head of the sublist of a bvnode element that
\* holds two surfaces
C31_Witness ==
    /\ Building /\ nodes.sort
    /\ \E a \in GroupElems(heap) :
           /\ heap.simd[a].k = 1
           /\ MovedBehind(a)
           /\ Cardinality(Under(heap, a)) >= 2


\* the fields of element a
Fields(h, a) == <<h.next[a], h.data[a], h.simd[a], h.temp[a]>>

\* the last insert has thrown the configuration error
ConfigError == log.err = "trnode/bvnode are not on the same branch"

\* C32: when insert throws "trnode/bvnode are not on the same branch", the
\* list is the one before the call: the slot and every field of every
\* element there was are as they were, no node element has been allocated,
\* and the element allocated for the surface is linked nowhere.
C32_ThrowLeavesList ==
    ConfigError =>
        /\ heap.head = log.before.head
        /\ \A a \in 1 .. log.before.top : Fields(heap, a) = Fields(log.before, a)
        /\ Levels(heap) = Levels(log.before)
        /\ heap.top = log.before.top + 1
        /\ RT_IS_SURFACE(heap.temp[heap.top])
        /\ heap.top \notin Linked(heap)
        /\ log.ret = 0

\* the insert has thrown on a list that holds a node element with a
\* surface under it
C32_Witness ==
    /\ ConfigError
    /\ \E a \in GroupElems(log.before) :
           a \in Linked(log.before) /\ Under(log.before, a) # {}
    /\ OffBranch(log.arrived[Len(log.arrived)])


\* the elements of the sublist of node element a
Sub(h, a) == LET c == Chain(h, h.simd[a].p) IN {c[x] : x \in DOMAIN c}

\* the elements of the list of the slot, sublists apart
Top(h) == LET c == Flat(h) IN {c[x] : x \in DOMAIN c}

\* surface i has one array for trnode and for bvnode
SameArray(i) == RT_IS_ARRAY(trnode[i]) /\ nodes.bvnode[i] = trnode[i]

\* element e is in the sublist of a trnode element of the array, which is
\* in the sublist of a bvnode element of the same array in the slot's list
BvnodeOuter(h, e, arr) ==
    \E b \in Top(h) \cap GroupElems(h) :
        /\ h.temp[b] = arr /\ h.simd[b].k = 1
        /\ \E a \in Sub(h, b) \cap GroupElems(h) :
               /\ h.temp[a] = arr /\ h.simd[a].k = 0
               /\ e \in Sub(h, a)

\* C33: for a surface requester, a surface whose trnode and bvnode are one
\* array is inserted under a trnode element of the array that is in the
\* sublist of a bvnode element of the array: bvnode is taken as outer-most.
C33_SameArrayBvnodeOuter ==
    (Building /\ RT_IS_SURFACE(nodes.obj)) =>
        \A n \in DOMAIN log.arrived :
            SameArray(log.arrived[n]) =>
                \E e \in SrfElems(heap) :
                    /\ heap.temp[e] = Surface(log.arrived[n])
                    /\ BvnodeOuter(heap, e, trnode[log.arrived[n]])

\* two surfaces with one array for both roles have arrived behind a surface
\* that has the array as trnode only
C33_Witness ==
    /\ Building /\ RT_IS_SURFACE(nodes.obj)
    /\ Cardinality({n \in DOMAIN log.arrived : SameArray(log.arrived[n])}) >= 2
    /\ \E a \in Top(heap) \cap GroupElems(heap) :
           heap.simd[a].k = 0 /\ heap.temp[a] = Array(1)
    /\ \E b \in Top(heap) \cap GroupElems(heap) :
           heap.simd[b].k = 1 /\ heap.temp[b] = Array(1)


\* the node elements element e is under, at any depth, each with its array
\* and its type
Groups(h, e) ==
    {<<h.temp[a], h.simd[a].k>> :
        a \in {g \in GroupElems(h) \cap Linked(h) :
                  \E p \in {PreOrder(h, h.simd[g].p)} :
                      \E x \in DOMAIN p : p[x] = e}}

\* the arrays surface i is grouped by for the requester obj: its trnode
\* when that is an array, its bvnode when obj is a surface
Relevant(obj, i) ==
    {<<trnode[i], 0>> : x \in {0} \cap {IF RT_IS_ARRAY(trnode[i]) THEN 0 ELSE 1}}
        \cup {<<nodes.bvnode[i], 1>> :
                 x \in {0} \cap {IF RT_IS_ARRAY(nodes.bvnode[i])
                                    /\ RT_IS_SURFACE(obj) THEN 0 ELSE 1}}

\* C34: a surface is grouped by its bvnode only for a requester that is a
\* surface; for a camera or a light it is under a node element of its
\* trnode array alone, and a surface that is its own trnode is under no
\* trnode element.
C34_RelevantGroups ==
    Building =>
        /\ \A e \in SrfElems(heap) \cap Linked(heap) :
               Groups(heap, e) = Relevant(nodes.obj, heap.temp[e].id)
        /\ \A a \in GroupElems(heap) :
               /\ heap.simd[a].k = 1 => RT_IS_SURFACE(nodes.obj)
               /\ heap.simd[a].k = 0 =>
                      \A srf \in Under(heap, a) : trnode[srf.id] # srf

\* for a light, a surface with a trnode array and a bvnode array is under
\* the trnode element only, beside a surface that is its own trnode
C34_Witness ==
    /\ Building /\ nodes.obj = Light(0)
    /\ \E e \in SrfElems(heap) \cap Linked(heap) :
           /\ RT_IS_ARRAY(nodes.bvnode[heap.temp[e].id])
           /\ Groups(heap, e) = {<<Array(1), 0>>}
    /\ \E e \in Top(heap) \cap SrfElems(heap) :
           trnode[heap.temp[e].id] = heap.temp[e]


(***************************************************************************)
(* The reversed copy of the tile-grid assembly on the list ssort(cam) has  *)
(* returned (specification SpecCopy).                                      *)
(***************************************************************************)
\* the reversal done on the elements of slist themselves
RECURSIVE ReverseLoop(_, _, _)
ReverseLoop(h, nxt, stail) ==
    IF nxt = 0 THEN [h |-> h, stail |-> stail]
    ELSE ReverseLoop([h EXCEPT !.next[nxt] = stail], h.next[nxt], nxt)

\* for (nxt = slist; nxt != RT_NULL; nxt = nxt->next): a new element gets
\* data, simd and temp of nxt and becomes the head of stail
RECURSIVE CopyLoop(_, _, _)
CopyLoop(h, nxt, stail) ==
    IF nxt = 0 THEN [h |-> h, stail |-> stail]
    ELSE CopyLoop(Alloc(h, h.data[nxt], h.simd[nxt], h.temp[nxt], stail),
                  h.next[nxt], h.top + 1)

\* render, tiling on: slist is what ssort(cam) has returned (filtered when
\* RT_OPTS_INSERT is on), the assembly builds its reversed copy
CopySlist ==
    /\ loc = NoLoc
    /\ nodes.obj = Camera
    /\ Len(log.arrived) = srf_num
    /\ log.err = ""
    /\ log.filtered = (IF nodes.sort THEN 1 ELSE 0)
    /\ \E r \in {CopyLoop(heap, heap.head.p, 0)} :
           /\ heap' = r.h
           /\ loc' = [pc |-> "assembly", s |-> <<>>, w |-> <<r.stail>>]
    /\ UNCHANGED <<frame, nodes, bbox_sort, reqs, log>>

NextCopy ==
    \/ Insert
    \/ Filter(0)
    \/ CopySlist

SpecCopy == InitList /\ [][NextCopy]_vars

\* data, simd and temp of element a
Payload(h, a) == <<h.data[a], h.simd[a], h.temp[a]>>

\* C35: the assembly leaves the global surface list as it is: the list head
\* and the next, data, simd and temp fields of all its elements are those
\* before, and the copy it walks is made of new elements that hold the
\* data, simd and temp of the elements of slist in reverse order.
C35_SlistKept ==
    [][CopySlist =>
          /\ heap'.head = heap.head
          /\ \A a \in 1 .. heap.top : Fields(heap', a) = Fields(heap, a)
          /\ Flat(heap') = Flat(heap)
          /\ \E c \in {Flat(heap)}, r \in {Chain(heap', loc'.w[1])} :
                 /\ Len(r) = Len(c)
                 /\ \A x \in DOMAIN c :
                        /\ r[Len(c) + 1 - x] > heap.top
                        /\ Payload(heap', r[Len(c) + 1 - x]) = Payload(heap, c[x])]_vars

\* the copy of a filtered list of three surfaces, two of them behind the
\* element of their array
C35_Witness ==
    /\ loc.pc = "assembly" /\ nodes.sort /\ srf_num = 3
    /\ \E c \in {Flat(heap)}, r \in {Chain(heap, loc.w[1])} :
           /\ Len(c) = 4 /\ Len(r) = 4
           /\ RT_IS_ARRAY(heap.temp[c[2]])
           /\ RT_IS_ARRAY(heap.temp[r[3]])
           /\ heap.temp[r[4]] = heap.temp[c[1]]
           /\ RT_IS_SURFACE(heap.temp[r[4]])


(***************************************************************************)
(* The tile list and the scratch vertices of stile (specification          *)
(* SpecStile).                                                             *)
(***************************************************************************)
\* the positions of the tile list that name tile (r, c)
Naming(el, r, c) == {n \in DOMAIN el : el[n].data = TileData(r, c)}

\* C36: with tiling on, the tile list stile leaves for a surface names, row
\* by row in ascending order and in ascending column order inside a row,
\* exactly the tiles (r, c) with txmin[r] <= c <= txmax[r], each once, every
\* element with data r << 16 | c of a row and a column of the tilebuffer;
\* with tiling off the list is RT_NULL and has no element.
C36_TileListRows ==
    Stiled =>
        IF opts.tiling
        THEN \E el \in {msc_p[0].el} :
                 /\ msc_p[0].st = (IF el = <<>> THEN "null" ELSE "cur")
                 /\ \A n \in DOMAIN el :
                        /\ el[n].temp = Surface(0)
                        /\ \E r \in Rows, c \in Cols :
                               /\ el[n].data = TileData(r, c)
                               /\ txmin[r] <= c /\ c <= txmax[r]
                 /\ \A r \in Rows : \A c \in txmin[r] .. txmax[r] :
                        Cardinality(Naming(el, r, c)) = 1
                 /\ \A n, m \in DOMAIN el :
                        n < m =>
                            \/ TileRow(el[n].data) < TileRow(el[m].data)
                            \/ /\ TileRow(el[n].data) = TileRow(el[m].data)
                               /\ TileCol(el[n].data) < TileCol(el[m].data)
        ELSE msc_p[0] = NullList

\* a bbox with vertices has marked two tiles in one row and fewer tiles, or
\* other ones, in another
C36_Witness ==
    /\ Stiled /\ opts.tiling /\ Len(shape.cls) # 0
    /\ \E r \in Rows : txmin[r] < txmax[r]
    /\ \E r, q \in Rows : <<txmin[r], txmax[r]>> # <<txmin[q], txmax[q]>>
    /\ \E r \in Rows : txmin[r] > txmax[r]
    /\ Len(msc_p[0].el) >= 3


\* the new vertices made as the copy of near vertex k, as the clipped
\* vertex of edge k
CopiesOf(k) == {v \in NewVerts : verts[v].org = <<"copy", k>>}
ClipsOf(k)  == {v \in NewVerts : verts[v].org = <<"clip", k>>}

\* C37: for a bbox of V vertices and E edges stile uses at most 2 * V + E
\* entries of the scratch buffer "verts": the V vertices, at most one new
\* vertex per vertex near the screen plane and at most one clipped vertex
\* per edge; this is the number of entries cleared before the projection
\* and, for V and E within their limits, not above the number allocated.
C37_ScratchBound ==
    (Stiled /\ opts.tiling /\ Len(shape.cls) # 0) =>
        \E V \in {Len(shape.cls)}, E \in {Len(shape.edges)} :
            /\ Len(verts) <= 2 * V + E
            /\ 2 * V + E <= 2 * MaxVerts + MaxEdges
            /\ Len(verts) = V + Cardinality(NewVerts)
            /\ \A k \in 1 .. V :
                   Cardinality(CopiesOf(k)) <= (IF shape.cls[k] = "near" THEN 1 ELSE 0)
            /\ \A k \in 1 .. E : Cardinality(ClipsOf(k)) <= 1
            /\ \A v \in NewVerts :
                   \/ \E k \in 1 .. V : v \in CopiesOf(k)
                   \/ \E k \in 1 .. E : v \in ClipsOf(k)

\* a bbox at the limits with a near vertex and an edge that is clipped
C37_Witness ==
    /\ Stiled /\ opts.tiling
    /\ Len(shape.cls) = MaxVerts /\ Len(shape.edges) = MaxEdges
    /\ \E k \in 1 .. MaxVerts : CopiesOf(k) # {}
    /\ \E k \in 1 .. MaxEdges : ClipsOf(k) # {}
    /\ Len(verts) = MaxVerts + 2


(***************************************************************************)
(* One call of ssort(obj) and of lsort(obj) with its steps kept            *)
(* (specification SpecSlots): render has come to the camera, or            *)
(* update_slice(0, 2) to a surface; what the material test and the         *)
(* geometry functions return to the two calls is drawn at the start.       *)
(***************************************************************************)
InitSlots ==
    /\ SceneLive
    /\ thnum = 1
    /\ srf_num \in 0 .. MaxObj
    /\ lgt_num \in 0 .. (MaxObj - srf_num)
    /\ opts \in [thread : {FALSE}, tiling : {FALSE}, twosided : BOOLEAN,
                 shadow : BOOLEAN, insert : BOOLEAN, render : BOOLEAN]
    /\ trnode = [i \in Srfs |-> NullNode]
    /\ mpool = TRUE
    /\ thpool = [w \in Thrds |-> TRUE]
    /\ bounds = [i \in Srfs |-> ResetBounds]
    /\ msc_p = [i \in Srfs |-> NullList]
    /\ lst_p = [i \in Srfs |-> [s |-> "stale", l |-> "stale"]]
    /\ tiles = [st |-> "stale", el |-> [t \in TileIdx |-> <<>>]]
    /\ scratch = [w \in Thrds |-> -1]
    /\ evt = [NoEvt EXCEPT !.done = {"hier"}]
    /\ rd = {}
    /\ RasterIdle
    /\ ClipperIdle
    /\ bbox_sort = <<>>
    /\ heap = NoHeap
    /\ log = NoLog
    /\ reqs = {}
    /\ \E obj \in {Camera} \cup {Surface(i) : i \in Srfs} :
           /\ nodes = [obj |-> obj, sort |-> opts.insert, bvnode |-> <<>>,
                       parent |-> <<>>]
           /\ IF obj = Camera
              THEN /\ pc = "wait1"
                   /\ slice = [w \in Thrds |-> [ph |-> 1, i |-> srf_num, st |-> "done"]]
                   /\ did = [p \in 1 .. 2 |-> [i \in Srfs |->
                                IF p = 1 THEN <<0>> ELSE <<>>]]
                   /\ slist = StaleList
                   /\ llist = [st |-> "stale", el |-> <<>>, shw |-> "stale"]
                   /\ loc = [pc |-> "ssort", s |-> <<>>,
                             w |-> [mat |-> FALSE, side |-> [s \in Srfs |-> 0],
                                    cside |-> [k \in Lgts |-> 0],
                                    shad |-> [k \in Lgts |-> [s \in Srfs |-> FALSE]]]]
              ELSE /\ pc = "wait2"
                   /\ slice = [w \in Thrds |-> [ph |-> 2, i |-> obj.id, st |-> "run"]]
                   /\ did = [p \in 1 .. 2 |-> [i \in Srfs |->
                                IF p = 1 \/ i < obj.id THEN <<0>> ELSE <<>>]]
                   /\ slist = [st |-> Fresh(0),
                               el |-> Flatten([x \in 1 .. srf_num |-> x - 1], trnode, 1)]
                   /\ llist = LET ll == LlistOf(lgt_num, slist.st)
                              IN  IF ll.st = "cur" THEN [ll EXCEPT !.st = Fresh(0)]
                                  ELSE ll
                   /\ \E mat \in Mats, side \in Sides, cside \in CSides,
                         shad \in Shads :
                          loc = [pc |-> "ssort", s |-> <<>>,
                                 w |-> [mat |-> mat, side |-> side,
                                        cside |-> cside, shad |-> shad]]

\* tharr[0]->ssort(obj): the steps of the call are kept
SlotsSsort ==
    /\ loc.pc = "ssort"
    /\ \E tr \in {ssort(nodes.obj, loc.w.mat, loc.w.side)} :
           /\ loc' = [loc EXCEPT !.pc = "lsort", !.s = tr]
           /\ reqs' = Calls(tr)
    /\ UNCHANGED <<frame, nodes, bbox_sort, heap, log>>

\* tharr[0]->lsort(obj), called when ssort(obj) has returned
SlotsLsort ==
    /\ loc.pc = "lsort"
    /\ \E tr \in {lsort(nodes.obj, loc.w.cside, loc.w.shad, loc.w.side)} :
           /\ loc' = [loc EXCEPT !.pc = "done", !.s = tr]
           /\ reqs' = reqs \cup Calls(tr)
    /\ UNCHANGED <<frame, nodes, bbox_sort, heap, log>>

NextSlots ==
    \/ SlotsSsort
    \/ SlotsLsort

SpecSlots == InitSlots /\ [][NextSlots]_vars

\* what the first n steps leave in a slot: the value stored last (the list
\* of a local when its head was stored) and what insert was called for
\* since, each with the slot it was inserted through
RECURSIVE Content(_, _, _)
Content(tr, n, slot) ==
    IF n = 0 THEN [base |-> Value(0), ins |-> <<>>]
    ELSE IF tr[n].fn = "store" /\ tr[n].ptr = slot
    THEN IF tr[n].val.at \in {"ssort", "lsort"}
         THEN Content(tr, n - 1, tr[n].val)
         ELSE [base |-> tr[n].val, ins |-> <<>>]
    ELSE IF tr[n].fn = "insert" /\ tr[n].ptr = slot
    THEN LET c == Content(tr, n - 1, slot)
         IN  [c EXCEPT !.ins = Append(@,
                 [node |-> IF tr[n].srf THEN tr[n].ref ELSE tr[n].obj,
                  at   |-> slot])]
    ELSE Content(tr, n - 1, slot)

Left(tr, slot) == Content(tr, Len(tr), slot)

\* how often node x was inserted into the list
Times(c, x) == Cardinality({n \in DOMAIN c.ins : c.ins[n].node = x})

\* the slot is set to RT_NULL before anything is inserted into it
ClearedFirst(tr, slot) ==
    \E a \in DOMAIN tr :
        /\ tr[a].fn = "store" /\ tr[a].ptr = slot /\ tr[a].val = NullSlot
        /\ \A n \in DOMAIN tr :
               (tr[n].fn = "insert" /\ tr[n].ptr = slot) => n > a

\* an empty list built by inserts only
Empty == [base |-> NullSlot, ins |-> <<>>]

\* C38: ssort for a surface: with RT_OPTS_RENDER off, or a material that is
\* opaque and does not reflect on both sides, lst_p[1] and lst_p[3] are set
\* to scene->slist and insert is not called; otherwise both are set to
\* RT_NULL first and, in two-sided mode, every surface of the scene is
\* inserted into lst_p[1] iff bbox_side has bit 2 and into lst_p[3] iff it
\* has bit 1, each once; with two-sided mode off every surface is inserted
\* once into one list whose head is stored into both.
C38_SurfaceSlots ==
    (loc.pc = "lsort" /\ RT_IS_SURFACE(nodes.obj)) =>
        \E tr \in {loc.s}, pto \in {LstP(nodes.obj, 1)},
           pti \in {LstP(nodes.obj, 3)} :
            \E out \in {Left(tr, pto)}, inn \in {Left(tr, pti)} :
                IF ~(opts.render /\ loc.w.mat)
                THEN /\ out = [base |-> Slist, ins |-> <<>>]
                     /\ inn = [base |-> Slist, ins |-> <<>>]
                     /\ \A n \in DOMAIN tr : tr[n].fn # "insert"
                ELSE /\ ClearedFirst(tr, pto) /\ ClearedFirst(tr, pti)
                     /\ out.base = NullSlot /\ inn.base = NullSlot
                     /\ Len(out.ins) + Len(inn.ins) =
                            Cardinality({n \in DOMAIN tr : tr[n].fn = "insert"})
                               * (IF opts.twosided THEN 1 ELSE 2)
                     /\ IF opts.twosided
                        THEN \A r \in Srfs :
                                 /\ Times(out, Surface(r)) =
                                        (IF Bit(loc.w.side[r], 2) THEN 1 ELSE 0)
                                 /\ Times(inn, Surface(r)) =
                                        (IF Bit(loc.w.side[r], 1) THEN 1 ELSE 0)
                        ELSE /\ out = inn
                             /\ \A r \in Srfs : Times(out, Surface(r)) = 1

\* two-sided: a surface on both sides, one outside only, one inside only
C38_Witness ==
    /\ loc.pc = "lsort" /\ RT_IS_SURFACE(nodes.obj)
    /\ opts.render /\ loc.w.mat /\ opts.twosided /\ srf_num = 3
    /\ \A c \in 1 .. 3 : \E r \in Srfs : loc.w.side[r] = c
    /\ Len(Left(loc.s, LstP(nodes.obj, 1)).ins) = 2
    /\ Len(Left(loc.s, LstP(nodes.obj, 3)).ins) = 2

\* the bit of bbox_side that goes with the light slot: lst_p[0] is the
\* outer list, lst_p[2] the inner one
SideBit(slot) == IF slot.k = 0 THEN 2 ELSE 1

\* the light slots of the surface
LightSlots(obj) == {LstP(obj, 0), LstP(obj, 2)}

\* C39: lsort with RT_OPTS_SHADOW on, for a surface: the data field of every
\* light element in lst_p[0] or lst_p[2] is set to RT_NULL before a shadow
\* surface is inserted and then gets, each once, exactly the surfaces shw
\* with bbox_shad(lgt, shw, srf) # 0, in two-sided mode only those on the
\* side of the slot (bit 2 of bbox_side for lst_p[0], bit 1 for lst_p[2]);
\* for the camera the data field of every light element stays scene->slist.
C39_ShadowLists ==
    loc.pc = "done" =>
        \E tr \in {loc.s}, obj \in {nodes.obj} :
            IF RT_IS_SURFACE(obj)
            THEN opts.shadow =>
                   \A slot \in LightSlots(obj) :
                     \E ll \in {Left(tr, slot)} :
                       \A n \in DOMAIN ll.ins :
                         \E lgt \in {ll.ins[n].node} :
                           \E ps \in {Data(ll.ins[n].at, lgt)} :
                             /\ lgt.tag = "LIGHT"
                             /\ ClearedFirst(tr, ps)
                             /\ Left(tr, ps).base = NullSlot
                             /\ \A s \in Srfs :
                                    Times(Left(tr, ps), Surface(s)) =
                                        (IF loc.w.shad[lgt.id][s]
                                            /\ (opts.twosided =>
                                                  Bit(loc.w.side[s], SideBit(slot)))
                                         THEN 1 ELSE 0)
                             /\ Len(Left(tr, ps).ins)
                                    = Cardinality({s \in Srfs :
                                          Times(Left(tr, ps), Surface(s)) = 1})
            ELSE \E ll \in {Left(tr, Lst("lsort", obj))} :
                     /\ \A k \in Lgts : Times(ll, Light(k)) = 1
                     /\ Len(ll.ins) = lgt_num
                     /\ \A n \in DOMAIN ll.ins :
                            Left(tr, Data(ll.ins[n].at, ll.ins[n].node))
                                = [base |-> Slist, ins |-> <<>>]

\* two-sided: the light element of the outer list has got one of two
\* surfaces that throw a shadow, the other one is on the inner side
C39_Witness ==
    /\ loc.pc = "done" /\ RT_IS_SURFACE(nodes.obj)
    /\ opts.shadow /\ opts.twosided /\ lgt_num = 1 /\ srf_num = 2
    /\ \A s \in Srfs : loc.w.shad[0][s]
    /\ \E s \in Srfs : ~Bit(loc.w.side[s], 2)
    /\ \E ll \in {Left(loc.s, LstP(nodes.obj, 0))} :
           /\ Len(ll.ins) = 1
           /\ Len(Left(loc.s, Data(ll.ins[1].at, ll.ins[1].node)).ins) = 1

====
